---- MODULE Spec2Model ----
(***************************************************************************)
(* Model of the match-record normaliser and the cross-match aggregator of  *)
(* backend/aoe4world_client.py (AoE4WorldClient.parse_game,                *)
(* parse_game_summary and analyze_performance), of the entity lookup of    *)
(* backend/aoe4_data.py (AoE4DataLookup), of the coaching report of        *)
(* backend/main.py (get_player_analysis, generate_coaching_report,         *)
(* normalize_coaching_report, generate_template_report) and of the age     *)
(* timing grades of backend/example_build_order_analysis.py.               *)
(*                                                                         *)
(* Python values are tagged records: t is the Python type, the other field *)
(* the payload.  A dict is a TLA+ function from its keys to values, so     *)
(* d.get(k, default), "k in d" and the truth value of a dict are computed  *)
(* as Python computes them.  A float is an exact rational [num, den];      *)
(* round(x, 1) is modelled by RoundHalfEven.  A str the code takes apart   *)
(* (split, strip, replace) is held as the sequence of its characters.      *)
(***************************************************************************)
EXTENDS Integers, Sequences, FiniteSets, TLC

VARIABLES method,         \* the client method the run called
          pc,             \* "idle" before the call, "done" when it returned
          profile_id,     \* argument of parse_game / parse_game_summary
          game_data,      \* argument of parse_game
          player_info,    \* local of parse_game when the team loop ends
          opponent_info,  \* local of parse_game when the team loop ends
          game,           \* return value of parse_game
          summary_data,   \* argument of parse_game_summary
          player_data,    \* local of parse_game_summary after its loop
          opponent_data,  \* local of parse_game_summary after its loop
          summary,        \* return value of parse_game_summary
          games,          \* argument of analyze_performance
          analysis,       \* return value of analyze_performance
          pbgid_to_entity,  \* AoE4DataLookup._pbgid_to_entity
          loaded,           \* AoE4DataLookup._loaded
          lookup_call,    \* the last call on the lookup: arguments, results
          ai_client,      \* main.ai_client, set when the module is imported
          report_call,    \* the last call of main.py: arguments, results
          timing_call,    \* the last call of example_build_order_analysis.py
          military_call   \* the last run of analyze_military.py

clientVars ==
    <<method, pc, profile_id, game_data, player_info, opponent_info, game,
      summary_data, player_data, opponent_data, summary, games, analysis>>

lookupVars == <<pbgid_to_entity, loaded, lookup_call>>

reportVars == <<ai_client, report_call>>

scriptVars == <<timing_call, military_call>>

vars == <<clientVars, lookupVars, reportVars, scriptVars>>

(***************************************************************************)
(* Python values                                                           *)
(***************************************************************************)
PyNone == [t |-> "none"]
PyInt(n) == [t |-> "int", i |-> n]
PyStr(s) == [t |-> "str", s |-> s]
PyList(l) == [t |-> "list", l |-> l]
PyDict(d) == [t |-> "dict", d |-> d]
EmptyDict == PyDict([k \in {} |-> PyNone])

isinstance_dict(v) == v.t = "dict"
isinstance_list(v) == v.t = "list"

\* str(v) for the values an identifier can take
str(v) ==
    CASE v.t = "int" -> ToString(v.i)
      [] v.t = "str" -> v.s
      [] v.t = "none" -> "None"

\* bool(v): the truth value Python gives v in "if v" / "if not v"
Truthy(v) ==
    CASE v.t = "none" -> FALSE
      [] v.t = "int" -> v.i # 0
      [] v.t = "str" -> Len(v.s) > 0
      [] v.t = "list" -> Len(v.l) > 0
      [] v.t = "dict" -> DOMAIN v.d # {}

\* v.get(k, default) on a dict v
Get(v, k, default) == IF k \in DOMAIN v.d THEN v.d[k] ELSE default

(***************************************************************************)
(* AoE4WorldClient.parse_game                                              *)
(***************************************************************************)
\* line 267: the identifier test, str(player.get(key)) == str(profile_id)
\* (parse_game_summary, line 184, is the same test on the key "profileId")
IdMatches_raw(player, key, pid) == Get(player, key, PyNone) = pid

IdMatches(player, key, pid) == str(Get(player, key, PyNone)) = str(pid)

NoLocals == [player_info |-> PyNone, opponent_info |-> PyNone]

\* lines 254-273: the body of "for player_wrapper in players"
PlayerStep_guess(st, player_wrapper, pid) ==
    IF ~isinstance_dict(player_wrapper) THEN st
    ELSE LET player == Get(player_wrapper, "player", player_wrapper) IN
         IF ~isinstance_dict(player) THEN st
         ELSE IF IdMatches(player, "profile_id", pid)
              THEN [st EXCEPT !.player_info = player]
              ELSE [player_info |-> IF ~Truthy(st.player_info)
                                    THEN player ELSE st.player_info,
                    opponent_info |-> IF ~Truthy(st.opponent_info)
                                      THEN player ELSE st.opponent_info]

PlayerStep_noelse(st, player_wrapper, pid) ==
    IF ~isinstance_dict(player_wrapper) THEN st
    ELSE LET player == Get(player_wrapper, "player", player_wrapper) IN
         IF ~isinstance_dict(player) THEN st
         ELSE [player_info |-> IF IdMatches(player, "profile_id", pid)
                               THEN player ELSE st.player_info,
               opponent_info |-> IF ~Truthy(st.opponent_info)
                                 THEN player ELSE st.opponent_info]

PlayerStep(st, player_wrapper, pid) ==
    IF ~isinstance_dict(player_wrapper) THEN st
    ELSE LET player == Get(player_wrapper, "player", player_wrapper) IN
         IF ~isinstance_dict(player) THEN st
         ELSE IF IdMatches(player, "profile_id", pid)
              THEN [st EXCEPT !.player_info = player]
              ELSE IF ~Truthy(st.opponent_info)
                   THEN [st EXCEPT !.opponent_info = player]
                   ELSE st

RECURSIVE PlayerLoop(_, _, _, _)
PlayerLoop(players, j, pid, st) ==
    IF j > Len(players) THEN st
    ELSE PlayerLoop(players, j + 1, pid, PlayerStep(st, players[j], pid))

\* lines 243-253: the body of "for team in teams"
TeamStep_nolist(st, team, pid) ==
    IF isinstance_dict(team)
    THEN PlayerLoop(Get(team, "players", PyList(<<>>)).l, 1, pid, st)
    ELSE st

TeamStep(st, team, pid) ==
    IF isinstance_dict(team)
    THEN PlayerLoop(Get(team, "players", PyList(<<>>)).l, 1, pid, st)
    ELSE IF isinstance_list(team)
         THEN PlayerLoop(team.l, 1, pid, st)
         ELSE st

RECURSIVE TeamLoop(_, _, _, _)
TeamLoop(teams, i, pid, st) ==
    IF i > Len(teams) THEN st
    ELSE TeamLoop(teams, i + 1, pid, TeamStep(st, teams[i], pid))

\* lines 280-285: datetime.fromisoformat(started_at_str.replace("Z",
\* "+00:00")) as an instant (a day number) for the strings it accepts;
\* for any other value the call raises and the method uses datetime.now()
IsoInstant ==
    ("2024-01-01T10:00:00Z" :> 1) @@ ("2024-01-02T10:00:00Z" :> 2)

Now == 3

ParseStartedAt(gd) ==
    LET started_at_str == Get(gd, "started_at", PyStr("")) IN
    IF started_at_str.t = "str" /\ started_at_str.s \in DOMAIN IsoInstant
    THEN IsoInstant[started_at_str.s]
    ELSE Now

\* lines 287-300: the Game the method builds
MakeGame(gd, pinfo, oinfo) ==
    [t |-> "Game",
     game_id |-> Get(gd, "game_id", PyStr("")),
     started_at |-> ParseStartedAt(gd),
     duration |-> Get(gd, "duration", PyInt(0)),
     map |-> Get(gd, "map", PyStr("Unknown")),
     kind |-> Get(gd, "kind", PyStr("unknown")),
     player_civ |-> Get(pinfo, "civilization", PyStr("Unknown")),
     player_result |-> Get(pinfo, "result", PyStr("unknown")),
     player_rating |-> Get(pinfo, "rating", PyInt(0)),
     player_rating_diff |-> Get(pinfo, "rating_diff", PyInt(0)),
     opponent_name |-> IF Truthy(oinfo)
                       THEN Get(oinfo, "name", PyStr("Unknown"))
                       ELSE PyStr("Unknown"),
     opponent_civ |-> IF Truthy(oinfo)
                      THEN Get(oinfo, "civilization", PyStr("Unknown"))
                      ELSE PyStr("Unknown"),
     opponent_rating |-> IF Truthy(oinfo)
                         THEN Get(oinfo, "rating", PyInt(0))
                         ELSE PyInt(0)]

\* lines 224-305: the locals when the method returns, and its return value
parse_game(gd, pid) ==
    IF ~isinstance_dict(gd)
    THEN [player_info |-> PyNone, opponent_info |-> PyNone, game |-> PyNone]
    ELSE LET teams == Get(gd, "teams", PyList(<<>>)) IN
         IF ~Truthy(teams)
         THEN [player_info |-> PyNone, opponent_info |-> PyNone,
               game |-> PyNone]
         ELSE LET st == TeamLoop(teams.l, 1, pid, NoLocals) IN
              [player_info |-> st.player_info,
               opponent_info |-> st.opponent_info,
               game |-> IF ~Truthy(st.player_info)
                        THEN PyNone
                        ELSE MakeGame(gd, st.player_info, st.opponent_info)]

(***************************************************************************)
(* AoE4WorldClient.parse_game_summary                                      *)
(***************************************************************************)
\* lines 183-187: the body of "for player in summary_data['players']";
\* player.get on an entry that is not a dict raises AttributeError (exc)
SummaryStep(st, player, pid) ==
    IF st.exc THEN st
    ELSE IF ~isinstance_dict(player) THEN [st EXCEPT !.exc = TRUE]
    ELSE IF IdMatches(player, "profileId", pid)
         THEN [st EXCEPT !.player_data = player]
         ELSE [st EXCEPT !.opponent_data = player]

RECURSIVE SummaryLoop(_, _, _, _)
SummaryLoop(players, j, pid, st) ==
    IF j > Len(players) THEN st
    ELSE SummaryLoop(players, j + 1, pid, SummaryStep(st, players[j], pid))

\* lines 195-197: actions.get(key, [None])[0]; [0] of an empty list raises
\* IndexError
AgeRaises(actions, key) ==
    key \in DOMAIN actions.d /\ Len(actions.d[key].l) = 0

AgeTime_zero_as_none(actions, key) ==
    IF key \in DOMAIN actions.d /\ actions.d[key].l[1] # PyInt(0)
    THEN actions.d[key].l[1]
    ELSE PyNone

AgeTime(actions, key) == Get(actions, key, PyList(<<PyNone>>)).l[1]

AgeKeys == {"feudalAge", "castleAge", "imperialAge"}

\* lines 199-217
MakeSummary(sd, pdata, odata, actions) ==
    [t |-> "GameSummary",
     game_id |-> Get(sd, "gameId", PyNone),
     duration |-> Get(sd, "duration", PyInt(0)),
     map_name |-> Get(sd, "mapName", PyStr("Unknown")),
     win_reason |-> Get(sd, "winReason", PyStr("Unknown")),
     player_name |-> Get(pdata, "name", PyStr("Unknown")),
     player_civ |-> Get(pdata, "civilization", PyStr("Unknown")),
     player_result |-> Get(pdata, "result", PyStr("unknown")),
     player_apm |-> Get(pdata, "apm", PyInt(0)),
     build_order |-> Get(pdata, "buildOrder", PyList(<<>>)),
     feudal_age_time |-> AgeTime(actions, "feudalAge"),
     castle_age_time |-> AgeTime(actions, "castleAge"),
     imperial_age_time |-> AgeTime(actions, "imperialAge"),
     total_resources_gathered |-> Get(pdata, "totalResourcesGathered",
                                      EmptyDict),
     total_resources_spent |-> Get(pdata, "totalResourcesSpent", EmptyDict),
     final_score |-> Get(pdata, "scores", EmptyDict),
     opponent_name |-> IF Truthy(odata)
                       THEN Get(odata, "name", PyStr("Unknown"))
                       ELSE PyStr("Unknown"),
     opponent_civ |-> IF Truthy(odata)
                      THEN Get(odata, "civilization", PyStr("Unknown"))
                      ELSE PyStr("Unknown")]

\* lines 173-222: the locals when the method returns, and its return value;
\* any exception is caught at line 218 and the method returns None
parse_game_summary(sd, pid) ==
    IF ~Truthy(sd) \/ "players" \notin DOMAIN sd.d
    THEN [player_data |-> PyNone, opponent_data |-> PyNone, exc |-> FALSE,
          summary |-> PyNone]
    ELSE LET st == SummaryLoop(sd.d["players"].l, 1, pid,
                               [player_data |-> PyNone,
                                opponent_data |-> PyNone, exc |-> FALSE])
             actions == Get(st.player_data, "actions", EmptyDict)
         IN  IF st.exc \/ ~Truthy(st.player_data)
             THEN [player_data |-> st.player_data,
                   opponent_data |-> st.opponent_data, exc |-> st.exc,
                   summary |-> PyNone]
             ELSE IF \/ ~isinstance_dict(actions)
                     \/ \E k \in AgeKeys : AgeRaises(actions, k)
                  THEN [player_data |-> st.player_data,
                        opponent_data |-> st.opponent_data, exc |-> TRUE,
                        summary |-> PyNone]
                  ELSE [player_data |-> st.player_data,
                        opponent_data |-> st.opponent_data, exc |-> FALSE,
                        summary |-> MakeSummary(sd, st.player_data,
                                                st.opponent_data, actions)]

(***************************************************************************)
(* AoE4WorldClient.analyze_performance                                     *)
(***************************************************************************)
\* a Python float, kept exact: num / den with den > 0
PyFloat(num, den) == [t |-> "float", num |-> num, den |-> den]

\* the integer nearest to num / den (den > 0), ties to the even integer:
\* what round() does on a value the float holds exactly
RoundHalfEven(num, den) ==
    LET q == num \div den
        r == num - q * den
    IN  IF 2 * r < den THEN q
        ELSE IF 2 * r > den THEN q + 1
        ELSE IF q % 2 = 0 THEN q ELSE q + 1

\* round(x, 1)
round1_trunc(x) == PyFloat((10 * x.num) \div x.den, 10)

round1(x) == PyFloat(RoundHalfEven(10 * x.num, x.den), 10)

IsWin(g) == g.player_result = PyStr("win")

RECURSIVE CountWins(_)
CountWins(gs) ==
    IF gs = <<>> THEN 0
    ELSE (IF IsWin(Head(gs)) THEN 1 ELSE 0) + CountWins(Tail(gs))

RECURSIVE SumRatingDiff(_)
SumRatingDiff(gs) ==
    IF gs = <<>> THEN 0
    ELSE Head(gs).player_rating_diff.i + SumRatingDiff(Tail(gs))

\* lines 317-334: one pass of "for game in games" over the grouping field
\* (player_civ for civ_stats, map for map_stats); stats maps a key to its
\* [games, wins] counters
RECURSIVE GroupLoop(_, _, _, _)
GroupLoop(gs, i, field, stats) ==
    IF i > Len(gs) THEN stats
    ELSE LET g == gs[i]
             k == g[field].s
             cur == IF k \in DOMAIN stats THEN stats[k]
                    ELSE [games |-> 0, wins |-> 0]
             new == [games |-> cur.games + 1,
                     wins |-> IF IsWin(g) THEN cur.wins + 1 ELSE cur.wins]
         IN  GroupLoop(gs, i + 1, field,
                       [x \in DOMAIN stats \cup {k} |->
                           IF x = k THEN new ELSE stats[x]])

\* lines 337-345: the win rate stored in each group, wins / games * 100
GroupWinRate_fraction(c) == PyFloat(c.wins, c.games)

GroupWinRate(c) == PyFloat(c.wins * 100, c.games)

\* lines 320-321, 330-331: a key enters the dict when a game first shows
\* it, so the dict lists its keys in the order of their first game
RECURSIVE FirstSeen(_, _, _, _)
FirstSeen(gs, i, field, order) ==
    IF i > Len(gs) THEN order
    ELSE LET k == gs[i][field].s IN
         FirstSeen(gs, i + 1, field,
                   IF \E j \in DOMAIN order : order[j] = k THEN order
                   ELSE Append(order, k))

GroupStats(gs, field) ==
    LET stats == GroupLoop(gs, 1, field, [x \in {} |-> 0]) IN
    [t |-> "dict",
     d |-> [k \in DOMAIN stats |->
               PyDict([games |-> PyInt(stats[k].games),
                       wins |-> PyInt(stats[k].wins),
                       win_rate |-> GroupWinRate(stats[k])])],
     order |-> FirstSeen(gs, 1, field, <<>>)]

\* line 359: games[0].player_rating
CurrentRating_last(gs) == gs[Len(gs)].player_rating

CurrentRating(gs) == gs[1].player_rating

\* lines 309-310: the value returned for an empty list
EmptyAnalysis == EmptyDict

\* a variant whose losses are the games with result "loss"
analyze_performance_loss_results(gs) ==
    IF gs = <<>> THEN EmptyAnalysis
    ELSE LET total_games == Len(gs)
             wins == CountWins(gs)
             win_rate == PyFloat(wins * 100, total_games)
             avg_rating_change == PyFloat(SumRatingDiff(gs), Len(gs))
         IN  PyDict([total_games |-> PyInt(total_games),
                     wins |-> PyInt(wins),
                     losses |->
                        PyInt(Cardinality(
                            {i \in DOMAIN gs :
                                gs[i].player_result = PyStr("loss")})),
                     win_rate |-> round1(win_rate),
                     civilization_stats |-> GroupStats(gs, "player_civ"),
                     map_stats |-> GroupStats(gs, "map"),
                     avg_rating_change |-> round1(avg_rating_change),
                     current_rating |-> CurrentRating(gs)])

\* lines 307-360
analyze_performance(gs) ==
    IF gs = <<>> THEN EmptyAnalysis
    ELSE LET total_games == Len(gs)
             wins == CountWins(gs)
             win_rate == PyFloat(wins * 100, total_games)
             avg_rating_change == PyFloat(SumRatingDiff(gs), Len(gs))
         IN  PyDict([total_games |-> PyInt(total_games),
                     wins |-> PyInt(wins),
                     losses |-> PyInt(total_games - wins),
                     win_rate |-> round1(win_rate),
                     civilization_stats |-> GroupStats(gs, "player_civ"),
                     map_stats |-> GroupStats(gs, "map"),
                     avg_rating_change |-> round1(avg_rating_change),
                     current_rating |-> CurrentRating(gs)])

(***************************************************************************)
(* Inputs: raw match payloads (the JSON of GET /players/{id}/games)        *)
(***************************************************************************)
MaxTeams == 2          \* teams in a payload
MaxParticipants == 3   \* player entries in a payload, over all its teams

PlayerObj(idv, name, civ, result, rating, diff) ==
    PyDict([profile_id |-> idv, name |-> PyStr(name),
            civilization |-> PyStr(civ), result |-> PyStr(result),
            rating |-> PyInt(rating), rating_diff |-> PyInt(diff)])

P_int1 == PlayerObj(PyInt(1), "ann", "english", "win", 1200, 15)
P_str1 == PlayerObj(PyStr("1"), "ann_s", "french", "loss", 1100, -12)
P_str2 == PlayerObj(PyStr("2"), "bob", "mongols", "loss", 1150, -15)
Wrap(p) == PyDict([player |-> p])

\* what a team's player list can hold: a wrapped player object and plain
\* player objects, one of them the empty object
Entries == {Wrap(P_int1), P_str1, P_str2, EmptyDict}

\* the same with the entries the loop skips: a value that is not an object
\* and a wrapper around null
EntriesWithSkipped == Entries \cup {PyNone, Wrap(PyNone)}

\* the identifiers a caller supplies
Targets == {PyInt(1), PyStr("1"), PyStr("None"), PyInt(7)}

SeqsOfLen(S, n) == [1..n -> S]

\* the shape of a team: a plain list of players, an object with a
\* "players" list, a plain player object (an object without "players") or
\* a value that is neither; size is the number of player entries it holds
TeamShapes(n) ==
    {[kind |-> k, size |-> m] : k \in {"list", "dict"}, m \in 0..n}
    \cup {[kind |-> "player", size |-> 0], [kind |-> "other", size |-> 0]}

RECURSIVE SizeSum(_)
SizeSum(shapes) ==
    IF shapes = <<>> THEN 0 ELSE Head(shapes).size + SizeSum(Tail(shapes))

\* the layouts of a payload that holds n player entries in all
Layouts(n) ==
    {shapes \in UNION {SeqsOfLen(TeamShapes(n), k) : k \in 0..MaxTeams} :
        SizeSum(shapes) = n}

\* the teams list that lays the entries es out in the given shapes
TeamsFrom(es, shapes) ==
    [i \in DOMAIN shapes |->
        LET off == SizeSum(SubSeq(shapes, 1, i - 1))
            members == PyList(SubSeq(es, off + 1, off + shapes[i].size))
        IN  CASE shapes[i].kind = "list" -> members
              [] shapes[i].kind = "dict" -> PyDict([players |-> members])
              [] shapes[i].kind = "player" -> P_str1
              [] shapes[i].kind = "other" -> PyStr("x")]

GameMeta(teams) ==
    PyDict([game_id |-> PyInt(42), started_at |-> PyStr("2024-01-01T10:00:00Z"),
            duration |-> PyInt(900), map |-> PyStr("Dry Arabia"),
            kind |-> PyStr("rm_solo"), teams |-> PyList(teams)])

\* payloads that are not an object or have no teams
NoTeamsPayloads == {PyNone, PyDict([game_id |-> PyInt(42)])}

(***************************************************************************)
(* Inputs: match summaries (the JSON of .../games/{id}/summary)            *)
(***************************************************************************)
MaxSummaryPlayers == 3   \* entries of a summary's "players" list

IntList(l) == PyList([i \in DOMAIN l |-> PyInt(l[i])])

SummaryPlayer(idv, name, civ) ==
    [profileId |-> idv, name |-> PyStr(name), civilization |-> PyStr(civ)]

WithActions(p, actions) ==
    PyDict([k \in DOMAIN p \cup {"actions"} |->
               IF k = "actions" THEN actions ELSE p[k]])

ActionMaps ==
    {EmptyDict,
     PyNone,
     PyDict([feudalAge |-> IntList(<<0>>)]),
     PyDict([feudalAge |-> IntList(<<>>)]),
     PyDict([feudalAge |-> IntList(<<312>>),
             castleAge |-> IntList(<<700, 800>>)]),
     PyDict([feudalAge |-> IntList(<<312>>), castleAge |-> IntList(<<0>>),
             imperialAge |-> IntList(<<1500, 1600>>)])}

S_str1 == SummaryPlayer(PyStr("1"), "ann_s", "french")
S_int1 == PyDict(SummaryPlayer(PyInt(1), "ann", "english"))
S_str2 == PyDict(SummaryPlayer(PyStr("2"), "bob", "mongols"))
S_str3 == PyDict(SummaryPlayer(PyStr("3"), "cat", "rus"))

SummaryEntries ==
    {PyDict(S_str1), S_int1, S_str2, S_str3, EmptyDict, PyNone}
    \cup {WithActions(S_str1, a) : a \in ActionMaps}

SummaryPayloads ==
    {PyNone, EmptyDict, PyDict([gameId |-> PyInt(42)])}
    \cup {PyDict([gameId |-> PyInt(42), duration |-> PyInt(900),
                  players |-> PyList(l)]) :
          l \in UNION {SeqsOfLen(SummaryEntries, n) :
                       n \in 0..MaxSummaryPlayers}}

(***************************************************************************)
(* Inputs: the Game lists handed to analyze_performance                    *)
(***************************************************************************)
MaxGames == 3   \* games in a list

\* a Game as parse_game builds it, playing civ on map with the given result;
\* the games on map M2 are the later ones and carry the higher rating
GameOf(civ, map, result) ==
    MakeGame(PyDict([game_id |-> PyInt(42),
                     started_at |-> PyStr(IF map = "M1"
                                          THEN "2024-01-01T10:00:00Z"
                                          ELSE "2024-01-02T10:00:00Z"),
                     duration |-> PyInt(900),
                     map |-> PyStr(map), kind |-> PyStr("rm_solo")]),
             PyDict([profile_id |-> PyInt(1), civilization |-> PyStr(civ),
                     result |-> PyStr(result),
                     rating |-> PyInt(IF map = "M1" THEN 1000 ELSE 1100),
                     rating_diff |-> PyInt(IF result = "win" THEN 15
                                           ELSE IF result = "loss" THEN -12
                                           ELSE 0)]),
             P_str2)

GameSet ==
    {GameOf(civ, map, result) :
        civ \in {"A", "B"}, map \in {"M1", "M2"},
        result \in {"win", "loss", "unknown"}}

GameLists == UNION {SeqsOfLen(GameSet, n) : n \in 0..MaxGames}

(***************************************************************************)
(* Specification: from the idle client, a run calls one method on          *)
(* arguments drawn from the input sets and executes its body               *)
(***************************************************************************)
\* the process before any call: the client idle, the lookup as
\* AoE4DataLookup.__init__ leaves it (aoe4_data.py lines 35-37), ai_client
\* as the import of main.py set it (lines 33-52)
Constructed(client) ==
    /\ method = "none" /\ pc = "idle"
    /\ profile_id = PyNone
    /\ game_data = PyNone /\ summary_data = PyNone /\ games = <<>>
    /\ player_info = PyNone /\ opponent_info = PyNone /\ game = PyNone
    /\ player_data = PyNone /\ opponent_data = PyNone /\ summary = PyNone
    /\ analysis = PyNone
    /\ pbgid_to_entity = <<>> /\ loaded = FALSE
    /\ lookup_call = [op |-> "none"]
    /\ ai_client = client
    /\ report_call = [op |-> "none"]
    /\ timing_call = [op |-> "none"]
    /\ military_call = [op |-> "none"]

Init == Constructed(PyNone)

ParseGameOn(gd, pid) ==
    LET r == parse_game(gd, pid) IN
    /\ game_data' = gd
    /\ profile_id' = pid
    /\ player_info' = r.player_info
    /\ opponent_info' = r.opponent_info
    /\ game' = r.game
    /\ method' = "parse_game"
    /\ pc' = "done"
    /\ UNCHANGED <<summary_data, player_data, opponent_data, summary, games,
                   analysis>>
    /\ UNCHANGED <<lookupVars, reportVars, scriptVars>>

ParseGame ==
    /\ pc = "idle"
    /\ \E pid \in Targets :
          \/ \E gd \in NoTeamsPayloads : ParseGameOn(gd, pid)
          \/ \E n \in 0..MaxParticipants :
                \E es \in SeqsOfLen(Entries, n), shapes \in Layouts(n) :
                   ParseGameOn(GameMeta(TeamsFrom(es, shapes)), pid)
          \/ \E n \in 1..MaxParticipants :
                \E es \in SeqsOfLen(EntriesWithSkipped, n) :
                   ParseGameOn(GameMeta(<<PyList(es)>>), pid)

ParseGameSummary ==
    /\ pc = "idle"
    /\ \E sd \in SummaryPayloads, pid \in Targets :
          LET r == parse_game_summary(sd, pid) IN
          /\ summary_data' = sd
          /\ profile_id' = pid
          /\ player_data' = r.player_data
          /\ opponent_data' = r.opponent_data
          /\ summary' = r.summary
    /\ method' = "parse_game_summary"
    /\ pc' = "done"
    /\ UNCHANGED <<game_data, player_info, opponent_info, game, games,
                   analysis>>
    /\ UNCHANGED <<lookupVars, reportVars, scriptVars>>

AnalyzePerformance ==
    /\ pc = "idle"
    /\ \E gs \in GameLists :
          /\ games' = gs
          /\ analysis' = analyze_performance(gs)
    /\ method' = "analyze_performance"
    /\ pc' = "done"
    /\ UNCHANGED <<profile_id, game_data, player_info, opponent_info, game,
                   summary_data, player_data, opponent_data, summary>>
    /\ UNCHANGED <<lookupVars, reportVars, scriptVars>>

Next == ParseGame \/ ParseGameSummary \/ AnalyzePerformance

Spec == Init /\ [][Next]_vars

(***************************************************************************)
(* What the properties speak about: the participants of a payload in       *)
(* traversal order, and the test "same identifier, compared as strings"    *)
(***************************************************************************)
IsObject(v) == v.t = "dict"

Unwrapped(e) ==
    IF IsObject(e) /\ "player" \in DOMAIN e.d THEN e.d["player"] ELSE e

TeamEntries(team) ==
    IF team.t = "list" THEN team.l
    ELSE IF IsObject(team) /\ "players" \in DOMAIN team.d
         THEN team.d["players"].l
         ELSE <<>>

RECURSIVE Flatten(_)
Flatten(teams) ==
    IF teams = <<>> THEN <<>>
    ELSE TeamEntries(Head(teams)) \o Flatten(Tail(teams))

HasTeams(gd) == IsObject(gd) /\ "teams" \in DOMAIN gd.d

\* the player objects of a match payload: teams in order, players within a
\* team in order, each taken out of its wrapper when it has one
Participants(gd) ==
    IF ~HasTeams(gd) THEN <<>>
    ELSE LET es == Flatten(gd.d["teams"].l) IN
         SelectSeq([i \in DOMAIN es |-> Unwrapped(es[i])], IsObject)

HasPlayers(sd) == IsObject(sd) /\ "players" \in DOMAIN sd.d

\* the entries of a summary's players list, and those that are objects
SummaryEntriesOf(sd) == IF HasPlayers(sd) THEN sd.d["players"].l ELSE <<>>

SummaryParticipants(sd) == SelectSeq(SummaryEntriesOf(sd), IsObject)

AllObjects(sd) ==
    \A i \in DOMAIN SummaryEntriesOf(sd) : IsObject(SummaryEntriesOf(sd)[i])

IdentifierOf(p, key) == IF key \in DOMAIN p.d THEN p.d[key] ELSE PyNone

SameIdText(p, key, pid) == str(IdentifierOf(p, key)) = str(pid)

MatchingAt(ps, key, pid) == {i \in DOMAIN ps : SameIdText(ps[i], key, pid)}

OthersAt(ps, key, pid) == DOMAIN ps \ MatchingAt(ps, key, pid)

MaxOf(S) == CHOOSE x \in S : \A y \in S : y <= x

MinOf(S) == CHOOSE x \in S : \A y \in S : x <= y

LastMatching(ps, key, pid) ==
    IF MatchingAt(ps, key, pid) = {} THEN PyNone
    ELSE ps[MaxOf(MatchingAt(ps, key, pid))]

FirstOther(ps, key, pid) ==
    IF OthersAt(ps, key, pid) = {} THEN PyNone
    ELSE ps[MinOf(OthersAt(ps, key, pid))]

LastOther(ps, key, pid) ==
    IF OthersAt(ps, key, pid) = {} THEN PyNone
    ELSE ps[MaxOf(OthersAt(ps, key, pid))]

IsEmptyObject(p) == IsObject(p) /\ DOMAIN p.d = {}

Among(p, ps) == \E i \in DOMAIN ps : ps[i] = p

GameDone == pc = "done" /\ method = "parse_game"

SummaryDone == pc = "done" /\ method = "parse_game_summary"

PerfDone == pc = "done" /\ method = "analyze_performance"

(***************************************************************************)
(* C1: when the target identifier, compared as strings, equals the         *)
(* identifier of no participant, parse_game and parse_game_summary return  *)
(* no match and no participant has been taken for the target player.       *)
(***************************************************************************)
C1_PlayerNotPresent ==
    /\ (GameDone /\ MatchingAt(Participants(game_data), "profile_id",
                               profile_id) = {})
          => (game = PyNone /\ player_info = PyNone)
    /\ (SummaryDone /\ MatchingAt(SummaryParticipants(summary_data),
                                  "profileId", profile_id) = {})
          => (summary = PyNone /\ player_data = PyNone)

\* a payload with two or more participants, none of them the target: the
\* loop has seen another player and the method still returns nothing
C1_Witness ==
    /\ GameDone
    /\ Len(Participants(game_data)) >= 2
    /\ MatchingAt(Participants(game_data), "profile_id", profile_id) = {}
    /\ opponent_info = P_str2
    /\ game = PyNone

C3_StringCoercedMatch ==
    /\ GameDone =>
          player_info = LastMatching(Participants(game_data), "profile_id",
                                     profile_id)
    /\ (SummaryDone /\ AllObjects(summary_data)) =>
          player_data = LastMatching(SummaryParticipants(summary_data),
                                     "profileId", profile_id)

\* the integer 1 was supplied and the player stored as "1" was selected
C3_Witness ==
    /\ GameDone
    /\ profile_id = PyInt(1)
    /\ player_info = P_str1
    /\ game # PyNone
    /\ game.player_civ = PyStr("french")

(***************************************************************************)
(* C4 as stated: when teams is a list of plain player objects and the      *)
(* target is supplied as an integer while the payload stores it as a       *)
(* string, parse_game returns a match with that player as self.            *)
(***************************************************************************)
IsPlainPlayer(v) ==
    /\ IsObject(v)
    /\ "profile_id" \in DOMAIN v.d
    /\ "player" \notin DOMAIN v.d
    /\ "players" \notin DOMAIN v.d

TeamsOf(gd) == IF HasTeams(gd) THEN gd.d["teams"].l ELSE <<>>

FlatTeams(gd) ==
    /\ TeamsOf(gd) # <<>>
    /\ \A i \in DOMAIN TeamsOf(gd) : IsPlainPlayer(TeamsOf(gd)[i])

StoredAsString(p, key) == IsObject(p) /\ IdentifierOf(p, key).t = "str"

C4_Original ==
    (/\ GameDone
     /\ FlatTeams(game_data)
     /\ profile_id.t = "int"
     /\ StoredAsString(LastMatching(TeamsOf(game_data), "profile_id",
                                    profile_id), "profile_id"))
    => /\ game # PyNone
       /\ player_info = LastMatching(TeamsOf(game_data), "profile_id",
                                     profile_id)

(***************************************************************************)
(* C4 amended: when every team of the payload is a plain list of plain     *)
(* player objects (no per-player wrapper) and the target is supplied as an *)
(* integer while the payload stores it as a string, parse_game returns a   *)
(* match with that player as self.                                         *)
(***************************************************************************)
ListTeamsOfPlainPlayers(gd) ==
    /\ TeamsOf(gd) # <<>>
    /\ \A i \in DOMAIN TeamsOf(gd) :
          /\ TeamsOf(gd)[i].t = "list"
          /\ \A j \in DOMAIN TeamsOf(gd)[i].l :
                IsPlainPlayer(TeamsOf(gd)[i].l[j])

C4_ListTeamsIntegerTarget ==
    (/\ GameDone
     /\ ListTeamsOfPlainPlayers(game_data)
     /\ profile_id.t = "int"
     /\ StoredAsString(LastMatching(Participants(game_data), "profile_id",
                                    profile_id), "profile_id"))
    => /\ game # PyNone
       /\ player_info = LastMatching(Participants(game_data), "profile_id",
                                     profile_id)
       /\ game.player_civ = player_info.d["civilization"]
       /\ game.player_result = player_info.d["result"]
       /\ game.player_rating = player_info.d["rating"]

\* teams = [["1"-player], ["2"-player]], target 1: a match, "1"-player self
C4_Witness ==
    /\ GameDone
    /\ profile_id = PyInt(1)
    /\ TeamsOf(game_data) = <<PyList(<<P_str1>>), PyList(<<P_str2>>)>>
    /\ game # PyNone
    /\ player_info = P_str1
    /\ opponent_info = P_str2

(***************************************************************************)
(* C5: in a match parse_game returns, the opponent is the first            *)
(* participant in traversal order whose identifier does not match the      *)
(* target, and no later participant takes its place.                       *)
(***************************************************************************)
C5_FirstOtherIsOpponent ==
    (GameDone /\ game # PyNone) =>
        LET first == FirstOther(Participants(game_data), "profile_id",
                                profile_id) IN
        /\ opponent_info = first
        /\ first # PyNone =>
              game.opponent_name = Get(first, "name", PyStr("Unknown"))

(***************************************************************************)
(* C6: in a summary parse_game_summary returns for a players list of more  *)
(* than two entries, the opponent is the first entry in list order whose   *)
(* identifier does not match the target.                                   *)
(***************************************************************************)
C6_FirstOtherIsSummaryOpponent ==
    (SummaryDone /\ summary # PyNone /\ Len(SummaryEntriesOf(summary_data)) > 2)
    => LET first == FirstOther(SummaryParticipants(summary_data),
                               "profileId", profile_id) IN
       /\ opponent_data = first
       /\ first # PyNone =>
             summary.opponent_name = Get(first, "name", PyStr("Unknown"))

(***************************************************************************)
(* C7: in a summary parse_game_summary returns, each age time is the first *)
(* timestamp recorded under the age key in the target player's actions     *)
(* map, null when the key is absent, and 0 (not null) when the first       *)
(* timestamp recorded is 0.                                                *)
(***************************************************************************)
AgeField ==
    [feudalAge |-> "feudal_age_time", castleAge |-> "castle_age_time",
     imperialAge |-> "imperial_age_time"]

ActionsOf(p) ==
    IF "actions" \in DOMAIN p.d THEN p.d["actions"].d ELSE [k \in {} |-> 0]

C7_AgeTimes ==
    (SummaryDone /\ summary # PyNone) =>
        \A k \in DOMAIN AgeField :
            /\ k \in DOMAIN ActionsOf(player_data)
                  => summary[AgeField[k]] = ActionsOf(player_data)[k].l[1]
            /\ k \notin DOMAIN ActionsOf(player_data)
                  => summary[AgeField[k]] = PyNone
            /\ (/\ k \in DOMAIN ActionsOf(player_data)
                /\ ActionsOf(player_data)[k].l[1] = PyInt(0))
                  => summary[AgeField[k]] # PyNone

\* feudal age recorded at second 0, no castle age recorded
C7_Witness ==
    /\ SummaryDone
    /\ summary # PyNone
    /\ ActionsOf(player_data) = [feudalAge |-> IntList(<<0>>)]
    /\ summary.feudal_age_time = PyInt(0)
    /\ summary.castle_age_time = PyNone

(***************************************************************************)
(* C8 as stated: analyze_performance reports a win rate of 0 for an empty  *)
(* list, and for a non-empty list 100 * wins / total rounded to one        *)
(* decimal, wins being the number of matches whose result is "win".        *)
(***************************************************************************)
Abs(n) == IF n < 0 THEN -n ELSE n

WinsIn(gs) == Cardinality({i \in DOMAIN gs : gs[i].player_result = PyStr("win")})

\* x is the multiple of 0.1 nearest to num / den
NearestTenth(x, num, den) ==
    /\ (10 * x.num) % x.den = 0
    /\ 2 * Abs(((10 * x.num) \div x.den) * den - 10 * num) <= den

Reports(a, key) == a # PyNone /\ IsObject(a) /\ key \in DOMAIN a.d

WinRateRounded ==
    (PerfDone /\ games # <<>>) =>
        /\ Reports(analysis, "win_rate")
        /\ analysis.d["wins"] = PyInt(WinsIn(games))
        /\ analysis.d["total_games"] = PyInt(Len(games))
        /\ NearestTenth(analysis.d["win_rate"], 100 * WinsIn(games),
                        Len(games))

C8_Original ==
    /\ (PerfDone /\ games = <<>>) =>
          /\ Reports(analysis, "win_rate")
          /\ analysis.d["win_rate"].num = 0
    /\ WinRateRounded

(***************************************************************************)
(* C8 amended: for an empty list analyze_performance returns an empty      *)
(* summary that holds no win rate (and raises no arithmetic error); for a  *)
(* non-empty list the win rate is 100 * wins / total rounded to one        *)
(* decimal, wins being the number of matches whose result is "win".        *)
(***************************************************************************)
C8_WinRate ==
    /\ (PerfDone /\ games = <<>>) =>
          /\ analysis = EmptyDict
          /\ ~Reports(analysis, "win_rate")
    /\ WinRateRounded

\* two wins in three games: 66.7
C8_Witness ==
    /\ PerfDone
    /\ Len(games) = 3
    /\ WinsIn(games) = 2
    /\ analysis.d["win_rate"] = PyFloat(667, 10)

(***************************************************************************)
(* C9 as stated: every byFaction and byMap entry holds the number of       *)
(* matches of its group, the number of those won, and the win rate         *)
(* 100 * wins / games rounded to one decimal.                              *)
(***************************************************************************)
GroupAt(gs, field, k) == {i \in DOMAIN gs : gs[i][field] = PyStr(k)}

GroupWins(gs, field, k) ==
    Cardinality({i \in GroupAt(gs, field, k) :
                    gs[i].player_result = PyStr("win")})

KeysIn(gs, field) == {gs[i][field].s : i \in DOMAIN gs}

GroupCounts(stats, field) ==
    /\ DOMAIN stats.d = KeysIn(games, field)
    /\ \A k \in DOMAIN stats.d :
          /\ stats.d[k].d["games"] =
                PyInt(Cardinality(GroupAt(games, field, k)))
          /\ stats.d[k].d["wins"] = PyInt(GroupWins(games, field, k))

GroupRatesRounded(stats, field) ==
    \A k \in DOMAIN stats.d :
        NearestTenth(stats.d[k].d["win_rate"],
                     100 * GroupWins(games, field, k),
                     Cardinality(GroupAt(games, field, k)))

\* x = num / den exactly
ExactRatio(x, num, den) == x.num * den = num * x.den

GroupRatesExact(stats, field) ==
    \A k \in DOMAIN stats.d :
        ExactRatio(stats.d[k].d["win_rate"],
                   100 * GroupWins(games, field, k),
                   Cardinality(GroupAt(games, field, k)))

C9_Original ==
    (PerfDone /\ games # <<>>) =>
        /\ GroupCounts(analysis.d["civilization_stats"], "player_civ")
        /\ GroupCounts(analysis.d["map_stats"], "map")
        /\ GroupRatesRounded(analysis.d["civilization_stats"], "player_civ")
        /\ GroupRatesRounded(analysis.d["map_stats"], "map")

(***************************************************************************)
(* C9 amended: every byFaction and byMap entry holds the number of matches *)
(* of its group, the number of those won, and the win rate                 *)
(* 100 * wins / games, not rounded; three matches with faction A (one win, *)
(* one loss) and faction B (one win) give A = 50.0 and B = 100.0.          *)
(***************************************************************************)
C9_GroupStats ==
    (PerfDone /\ games # <<>>) =>
        /\ GroupCounts(analysis.d["civilization_stats"], "player_civ")
        /\ GroupCounts(analysis.d["map_stats"], "map")
        /\ GroupRatesExact(analysis.d["civilization_stats"], "player_civ")
        /\ GroupRatesExact(analysis.d["map_stats"], "map")

\* A: win, A: loss, B: win
C9_Witness ==
    /\ PerfDone
    /\ Len(games) = 3
    /\ games[1].player_civ = PyStr("A") /\ games[1].player_result = PyStr("win")
    /\ games[2].player_civ = PyStr("A")
    /\ games[2].player_result = PyStr("loss")
    /\ games[3].player_civ = PyStr("B") /\ games[3].player_result = PyStr("win")
    /\ ExactRatio(analysis.d["civilization_stats"].d["A"].d["win_rate"], 50, 1)
    /\ ExactRatio(analysis.d["civilization_stats"].d["B"].d["win_rate"], 100, 1)

(***************************************************************************)
(* C10 as stated: currentRating is the rating of the match at index 0 of   *)
(* the supplied sequence, whatever the start times, and 0 for an empty     *)
(* sequence.                                                               *)
(***************************************************************************)
RatingOfFirst ==
    (PerfDone /\ games # <<>>) =>
        /\ Reports(analysis, "current_rating")
        /\ analysis.d["current_rating"] = games[1].player_rating

C10_Original ==
    /\ RatingOfFirst
    /\ (PerfDone /\ games = <<>>) =>
          /\ Reports(analysis, "current_rating")
          /\ analysis.d["current_rating"] = PyInt(0)

(***************************************************************************)
(* C10 amended: for a non-empty sequence currentRating is the rating of    *)
(* the match at index 0 of the supplied sequence, whatever the start times *)
(* (the aggregator never re-sorts); for an empty sequence the summary      *)
(* returned is empty and holds no currentRating.                           *)
(***************************************************************************)
C10_CurrentRating ==
    /\ RatingOfFirst
    /\ (PerfDone /\ games = <<>>) =>
          /\ IsObject(analysis)
          /\ ~Reports(analysis, "current_rating")

\* index 0 holds the older, lower-rated match and its rating is reported
C10_Witness ==
    /\ PerfDone
    /\ Len(games) >= 2
    /\ games[1].started_at < games[2].started_at
    /\ games[1].player_rating # games[2].player_rating
    /\ analysis.d["current_rating"] = games[1].player_rating

(***************************************************************************)
(* Character strings                                                       *)
(***************************************************************************)
Digit(d) ==
    CASE d = 0 -> "0" [] d = 1 -> "1" [] d = 2 -> "2" [] d = 3 -> "3"
      [] d = 4 -> "4" [] d = 5 -> "5" [] d = 6 -> "6" [] d = 7 -> "7"
      [] d = 8 -> "8" [] d = 9 -> "9"

\* the decimal digits of an int, as str() and an f-string write it
RECURSIVE Decimal(_)
Decimal(n) ==
    IF n < 0 THEN <<"-">> \o Decimal(-n)
    ELSE IF n < 10 THEN <<Digit(n)>>
    ELSE Decimal(n \div 10) \o <<Digit(n % 10)>>

\* the characters "{v}" puts into an f-string
Formatted(v) ==
    CASE v.t = "int" -> Decimal(v.i)
      [] v.t = "str" -> v.s
      [] v.t = "none" -> <<"N", "o", "n", "e">>

\* s.split(sep) for a one-character separator
RECURSIVE Split(_, _)
Split(cs, sep) ==
    IF \A i \in DOMAIN cs : cs[i] # sep THEN <<cs>>
    ELSE LET i == CHOOSE k \in DOMAIN cs :
                     cs[k] = sep /\ \A j \in 1..(k - 1) : cs[j] # sep
         IN  <<SubSeq(cs, 1, i - 1)>> \o Split(SubSeq(cs, i + 1, Len(cs)), sep)

\* s.replace(a, b) for one-character a and b
Replace(cs, a, b) == [i \in DOMAIN cs |-> IF cs[i] = a THEN b ELSE cs[i]]

\* s.strip(chars)
RECURSIVE Strip(_, _)
Strip(cs, chars) ==
    IF cs = <<>> THEN cs
    ELSE IF cs[1] \in chars THEN Strip(Tail(cs), chars)
    ELSE IF cs[Len(cs)] \in chars THEN Strip(SubSeq(cs, 1, Len(cs) - 1), chars)
    ELSE cs

Unknown == <<"U", "n", "k", "n", "o", "w", "n">>

(***************************************************************************)
(* AoE4DataLookup (aoe4_data.py)                                           *)
(***************************************************************************)
EntityData(pbgid, name, base_id, entity_type, civs, age) ==
    [pbgid |-> pbgid, name |-> name, base_id |-> base_id,
     entity_type |-> entity_type, civs |-> civs, age |-> age]

\* lines 87-102: the body of "for item in data"; item.get raises on an item
\* that is not an object, and what the loop stored before stays stored
ProcessStep(st, item, entity_type) ==
    IF st.raised THEN st
    ELSE IF ~isinstance_dict(item) THEN [st EXCEPT !.raised = TRUE]
    ELSE LET pbgid == Get(item, "pbgid", PyNone)
             entity == EntityData(pbgid,
                                  Get(item, "name", PyStr(Unknown)),
                                  Get(item, "baseId",
                                      Get(item, "id", PyStr(<<>>))),
                                  entity_type,
                                  Get(item, "civs", PyList(<<>>)),
                                  Get(item, "age", PyInt(0)))
         IN  IF pbgid = PyNone THEN st
             ELSE [st EXCEPT !.index = (pbgid :> entity) @@ st.index,
                             !.count = st.count + 1]

RECURSIVE ProcessLoop(_, _, _, _)
ProcessLoop(data, j, entity_type, st) ==
    IF j > Len(data) THEN st
    ELSE ProcessLoop(data, j + 1, entity_type,
                     ProcessStep(st, data[j], entity_type))

\* _process_entities: the index as the call leaves it, the count it
\* returns, and whether it raised instead of returning
process_entities(index, data, entity_type) ==
    IF ~isinstance_list(data)
    THEN [index |-> index, count |-> 0, raised |-> TRUE]
    ELSE ProcessLoop(data.l, 1, entity_type,
                     [index |-> index, count |-> 0, raised |-> FALSE])

endpoints == <<"units", "buildings", "technologies">>

\* lines 66-78 with every failure ending the whole loop
LoadStep_stop(st, entity_type, response) ==
    IF st.stopped THEN st
    ELSE LET fetched == Append(st.fetched, entity_type) IN
         IF response.kind = "raise" \/ response.status # 200
         THEN [st EXCEPT !.fetched = fetched, !.stopped = TRUE]
         ELSE LET response_data == response.json
                  entities == IF isinstance_dict(response_data)
                              THEN Get(response_data, "data", PyList(<<>>))
                              ELSE response_data
                  r == process_entities(st.index, entities, entity_type)
              IN  [index |-> r.index,
                   total_loaded |->
                       IF r.raised THEN st.total_loaded
                       ELSE st.total_loaded + r.count,
                   fetched |-> fetched,
                   stopped |-> r.raised]

\* lines 66-78: the body of "for entity_type, url in endpoints"; the
\* except clause swallows a failure of session.get, response.json or
\* _process_entities and the loop goes on
LoadStep(st, entity_type, response) ==
    LET fetched == Append(st.fetched, entity_type) IN
    IF response.kind = "raise" THEN [st EXCEPT !.fetched = fetched]
    ELSE IF response.status # 200 THEN [st EXCEPT !.fetched = fetched]
    ELSE LET response_data == response.json
             entities == IF isinstance_dict(response_data)
                         THEN Get(response_data, "data", PyList(<<>>))
                         ELSE response_data
             r == process_entities(st.index, entities, entity_type)
         IN  [index |-> r.index,
              total_loaded |->
                  IF r.raised THEN st.total_loaded
                  ELSE st.total_loaded + r.count,
              fetched |-> fetched,
              stopped |-> FALSE]

RECURSIVE LoadLoop(_, _, _)
LoadLoop(responses, i, st) ==
    IF i > Len(endpoints) THEN st
    ELSE LoadLoop(responses, i + 1, LoadStep(st, endpoints[i], responses[i]))

\* a variant that empties the index when nothing was loaded
load_reset(index, responses) ==
    LET st == LoadLoop(responses, 1,
                       [index |-> index, total_loaded |-> 0,
                        fetched |-> <<>>, stopped |-> FALSE])
    IN  [index |-> IF st.total_loaded > 0 THEN st.index ELSE <<>>,
         loaded |-> st.total_loaded > 0,
         fetched |-> st.fetched,
         returned |-> st.total_loaded > 0]

\* load: the index and the flag as the call leaves them, the endpoints it
\* requested and the value it returns
load(index, responses) ==
    LET st == LoadLoop(responses, 1,
                       [index |-> index, total_loaded |-> 0,
                        fetched |-> <<>>, stopped |-> FALSE])
    IN  [index |-> st.index,
         loaded |-> st.total_loaded > 0,
         fetched |-> st.fetched,
         returned |-> st.total_loaded > 0]

\* get_name with "fallback is not None" in place of the truth value
get_name_not_none(index, pbgid, fallback) ==
    LET entity == IF pbgid \in DOMAIN index THEN index[pbgid] ELSE PyNone IN
    IF entity # PyNone THEN entity.name
    ELSE IF fallback # PyNone THEN fallback
    ELSE PyStr(Unknown \o <<" ", "(">> \o Formatted(pbgid) \o <<")">>)

\* lines 117-120; an EntityData object is always true
get_name(index, pbgid, fallback) ==
    LET entity == IF pbgid \in DOMAIN index THEN index[pbgid] ELSE PyNone IN
    IF entity # PyNone THEN entity.name
    ELSE IF Truthy(fallback) THEN fallback
    ELSE PyStr(Unknown \o <<" ", "(">> \o Formatted(pbgid) \o <<")">>)

\* lines 122-124: self._pbgid_to_entity.get(pbgid)
get_entity(index, pbgid) ==
    IF pbgid \in DOMAIN index THEN index[pbgid] ELSE PyNone

\* enriched_item["name"] = name
SetItem(d, k, v) ==
    PyDict([x \in DOMAIN d.d \cup {k} |-> IF x = k THEN v ELSE d.d[x]])

\* the first path segment in place of the last
IconName_first(icon) ==
    LET parts == Split(icon.s, "/")
    IN  PyStr(Replace(parts[1], "_", " "))

\* icon.split("/")[-1].replace("_", " ")
IconName(icon) ==
    LET parts == Split(icon.s, "/")
    IN  PyStr(Replace(parts[Len(parts)], "_", " "))

\* lines 142-151: the name an item gets
ItemName(index, item) ==
    LET pbgid == Get(item, "pbgid", PyNone)
        icon == Get(item, "icon", PyStr(<<>>))
    IN  IF Truthy(pbgid)
        THEN get_name(index, pbgid,
                      IF Truthy(icon) THEN IconName(icon) ELSE PyNone)
        ELSE IF Truthy(icon) THEN IconName(icon) ELSE PyStr(Unknown)

\* the loop body writing the name into the item itself
EnrichStep_inplace(index, item) ==
    LET enriched_item == SetItem(item, "name", ItemName(index, item))
    IN  [item |-> enriched_item, enriched_item |-> enriched_item]

\* lines 137-153: the body of "for item in build_order": the item as the
\* body leaves it and the copy it appends
EnrichStep(index, item) ==
    LET enriched_item == SetItem(item, "name", ItemName(index, item))
    IN  [item |-> item, enriched_item |-> enriched_item]

\* enrich_build_order: the list passed in as the call leaves it, and the
\* list it returns
enrich_build_order(index, build_order) ==
    [build_order |->
         [i \in DOMAIN build_order |-> EnrichStep(index, build_order[i]).item],
     enriched |->
         [i \in DOMAIN build_order |->
             EnrichStep(index, build_order[i]).enriched_item]]

(***************************************************************************)
(* Inputs: the answers of data.aoe4world.com and the build orders          *)
(***************************************************************************)
MaxEntries == 2   \* items of a build order

Item(n, name) == PyDict([pbgid |-> PyInt(n), name |-> PyStr(name)])
Villager == Item(1, <<"V", "i", "l">>)
Gaia == Item(0, <<"G", "a", "i", "a">>)
House == PyDict([pbgid |-> PyInt(2), id |-> PyStr(<<"h">>)])
NoIdItem == PyDict([name |-> PyStr(<<"x">>)])
BadItem == PyStr(<<"o", "o", "p", "s">>)

Http(status, json) == [kind |-> "http", status |-> status, json |-> json]

Wrapped(items) == Http(200, PyDict([data |-> PyList(items)]))

Bare(items) == Http(200, PyList(items))

\* how each endpoint can answer: the request raises, a status other than
\* 200, or a body: {"data": [...]}, the bare list, an object without
\* "data"; a collection lists entities, entities without an identifier and
\* values that are not objects
ResponsesOf(entity_type) ==
    CASE entity_type = "units" ->
            {[kind |-> "raise"], Http(500, PyNone), Wrapped(<<>>),
             Wrapped(<<Villager>>), Wrapped(<<Villager, BadItem>>)}
      [] entity_type = "buildings" ->
            {Http(404, PyNone), Http(200, EmptyDict),
             Bare(<<House, NoIdItem>>), Bare(<<BadItem, House>>)}
      [] entity_type = "technologies" ->
            {[kind |-> "raise"], Wrapped(<<NoIdItem>>), Wrapped(<<Gaia>>),
             Http(200, PyDict([data |-> PyNone]))}

PbgidArgs == {PyInt(0), PyInt(1), PyInt(2), PyInt(12), PyNone}

IconPath == <<"u", "/", "a", "_", "b">>

FallbackArgs == {PyNone, PyStr(<<>>), PyStr(<<"a", " ", "b">>)}

Entry(pbgid, icon) == PyDict([pbgid |-> pbgid, icon |-> icon])

\* build order items: the identifier in the catalog or not, zero or null,
\* with and without an icon, one with a name already
TimelineEntries ==
    {PyDict([pbgid |-> PyInt(1), icon |-> PyStr(IconPath),
             name |-> PyStr(<<"o", "l", "d">>)]),
     Entry(PyInt(12), PyStr(IconPath)),
     PyDict([pbgid |-> PyInt(12), type |-> PyStr(<<"U">>)]),
     Entry(PyInt(12), PyStr(<<"u", "/">>)),
     Entry(PyInt(0), PyStr(<<"a", "_", "b">>)),
     Entry(PyNone, PyNone)}

(***************************************************************************)
(* Specification of the lookup: load, get_name, get_entity and            *)
(* enrich_build_order are called in any order on the global instance      *)
(***************************************************************************)
Load ==
    /\ \E units \in ResponsesOf("units"),
          buildings \in ResponsesOf("buildings"),
          technologies \in ResponsesOf("technologies") :
          LET responses == <<units, buildings, technologies>>
              r == load(pbgid_to_entity, responses)
          IN  /\ pbgid_to_entity' = r.index
              /\ loaded' = r.loaded
              /\ lookup_call' = [op |-> "load", responses |-> responses,
                                 fetched |-> r.fetched,
                                 returned |-> r.returned]
    /\ UNCHANGED <<clientVars, reportVars, scriptVars>>

GetName ==
    /\ \E pbgid \in PbgidArgs, fallback \in FallbackArgs :
          lookup_call' = [op |-> "get_name", pbgid |-> pbgid,
                          fallback |-> fallback,
                          returned |->
                              get_name(pbgid_to_entity, pbgid, fallback)]
    /\ UNCHANGED <<pbgid_to_entity, loaded>>
    /\ UNCHANGED <<clientVars, reportVars, scriptVars>>

GetEntity ==
    /\ \E pbgid \in PbgidArgs :
          lookup_call' = [op |-> "get_entity", pbgid |-> pbgid,
                          returned |-> get_entity(pbgid_to_entity, pbgid)]
    /\ UNCHANGED <<pbgid_to_entity, loaded>>
    /\ UNCHANGED <<clientVars, reportVars, scriptVars>>

EnrichBuildOrder ==
    /\ \E n \in 0..MaxEntries :
          \E items \in SeqsOfLen(TimelineEntries, n) :
             LET r == enrich_build_order(pbgid_to_entity, items)
             IN  lookup_call' = [op |-> "enrich_build_order",
                                 passed |-> items,
                                 build_order |-> r.build_order,
                                 returned |-> r.enriched]
    /\ UNCHANGED <<pbgid_to_entity, loaded>>
    /\ UNCHANGED <<clientVars, reportVars, scriptVars>>

NextLookup == Load \/ GetName \/ GetEntity \/ EnrichBuildOrder

SpecLookup == Init /\ [][NextLookup]_vars

(***************************************************************************)
(* Vocabulary of the properties of the lookup                              *)
(***************************************************************************)
LoadDone == lookup_call.op = "load"

GetNameDone == lookup_call.op = "get_name"

EnrichDone == lookup_call.op = "enrich_build_order"

InCatalog(id) == id \in DOMAIN pbgid_to_entity

CatalogName(id) == pbgid_to_entity[id].name

\* the text of an identifier between the brackets of "Unknown (<id>)"
IdText(id) ==
    CASE id = PyInt(0) -> <<"0">>
      [] id = PyInt(1) -> <<"1">>
      [] id = PyInt(2) -> <<"2">>
      [] id = PyInt(12) -> <<"1", "2">>
      [] id = PyNone -> <<"N", "o", "n", "e">>

Synthetic(id) ==
    PyStr(<<"U", "n", "k", "n", "o", "w", "n", " ", "(">> \o IdText(id)
          \o <<")">>)

IsText(v) == v.t = "str"

NonEmptyText(v) == IsText(v) /\ v.s # <<>>

ItemsSent(response) ==
    IF response.kind # "http" \/ response.status # 200 THEN <<>>
    ELSE IF response.json.t = "list" THEN response.json.l
    ELSE IF response.json.t = "dict" /\ "data" \in DOMAIN response.json.d
            /\ response.json.d["data"].t = "list"
    THEN response.json.d["data"].l
    ELSE <<>>

HasId(item) ==
    IsObject(item) /\ "pbgid" \in DOMAIN item.d /\ item.d["pbgid"] # PyNone

\* the positions of a collection the loop reaches: those before the first
\* value that is not an object
Reached(items) ==
    {j \in DOMAIN items : \A k \in 1..j : IsObject(items[k])}

PutsAnEntry(response) ==
    \E j \in Reached(ItemsSent(response)) : HasId(ItemsSent(response)[j])

C12_LoadedIffAdded ==
    LoadDone =>
        (loaded <=> \E i \in 1..3 : PutsAnEntry(lookup_call.responses[i]))

(***************************************************************************)
(* C13: a failure on one collection (non-200, or an exception while        *)
(* fetching or processing it) does not stop load(): all three collections  *)
(* are requested, every collection that arrived intact has its entities    *)
(* in the index, and load() returns.                                       *)
(***************************************************************************)
Intact(response) ==
    /\ response.kind = "http" /\ response.status = 200
    /\ \A j \in DOMAIN ItemsSent(response) : IsObject(ItemsSent(response)[j])

C13_LoadGoesOn ==
    LoadDone =>
        /\ lookup_call.fetched = <<"units", "buildings", "technologies">>
        /\ lookup_call.returned \in BOOLEAN
        /\ \A i \in 1..3 :
              Intact(lookup_call.responses[i]) =>
                  \A j \in DOMAIN ItemsSent(lookup_call.responses[i]) :
                     LET item == ItemsSent(lookup_call.responses[i])[j] IN
                     HasId(item) =>
                        /\ InCatalog(item.d["pbgid"])
                        /\ pbgid_to_entity[item.d["pbgid"]].entity_type =
                              <<"units", "buildings", "technologies">>[i]

\* the units request raised, the buildings answer broke off part-way, and
\* the technologies were indexed all the same
C13_Witness ==
    /\ LoadDone
    /\ lookup_call.responses[1].kind = "raise"
    /\ ~Intact(lookup_call.responses[2])
    /\ lookup_call.responses[2].status = 200
    /\ Intact(lookup_call.responses[3])
    /\ InCatalog(PyInt(0))
    /\ DOMAIN pbgid_to_entity = {PyInt(0)}
    /\ loaded

(***************************************************************************)
(* C14 as stated: every enriched entry has a name: the catalog name when   *)
(* the entry carries an identifier found in the catalog, otherwise the     *)
(* last path segment of the icon with underscores as spaces, otherwise     *)
(* "Unknown".  An identifier that misses the catalog with no icon gives    *)
(* "Unknown (<id>)".                                                       *)
(***************************************************************************)
IdOf(entry) == IF "pbgid" \in DOMAIN entry.d THEN entry.d["pbgid"] ELSE PyNone

IconOf(entry) == IF "icon" \in DOMAIN entry.d THEN entry.d["icon"] ELSE PyNone

HasIcon(entry) == NonEmptyText(IconOf(entry))

LastSegment(cs) ==
    LET slashes == {i \in DOMAIN cs : cs[i] = "/"}
    IN  IF slashes = {} THEN cs ELSE SubSeq(cs, MaxOf(slashes) + 1, Len(cs))

Spaced(cs) == [i \in DOMAIN cs |-> IF cs[i] = "_" THEN " " ELSE cs[i]]

IconText(entry) == PyStr(Spaced(LastSegment(IconOf(entry).s)))

NameOf(entry) == IF "name" \in DOMAIN entry.d THEN entry.d["name"] ELSE PyNone

C14_Original ==
    EnrichDone =>
        \A i \in DOMAIN lookup_call.passed :
           LET entry == lookup_call.passed[i] IN
           NameOf(lookup_call.returned[i]) =
              IF IdOf(entry) # PyNone /\ InCatalog(IdOf(entry))
              THEN CatalogName(IdOf(entry))
              ELSE IF HasIcon(entry) THEN IconText(entry)
              ELSE PyStr(<<"U", "n", "k", "n", "o", "w", "n">>)

(***************************************************************************)
(* C14: every enriched entry has a non-null name.  An identifier that is   *)
(* absent, null or zero counts as no identifier.  With an identifier found *)
(* in the catalog the name is the catalog name; with an identifier that    *)
(* misses the catalog it is the last path segment of the icon with         *)
(* underscores as spaces when that text is not empty, and                  *)
(* "Unknown (<id>)" otherwise; with no identifier it is that icon text     *)
(* when the entry has an icon and "Unknown" otherwise.                     *)
(***************************************************************************)
CarriesId(entry) == IdOf(entry) # PyNone /\ IdOf(entry) # PyInt(0)

C14_EnrichedNames ==
    EnrichDone =>
        \A i \in DOMAIN lookup_call.passed :
           LET entry == lookup_call.passed[i]
               name == NameOf(lookup_call.returned[i])
           IN  /\ IsText(name)
               /\ name =
                    IF CarriesId(entry) /\ InCatalog(IdOf(entry))
                    THEN CatalogName(IdOf(entry))
                    ELSE IF CarriesId(entry)
                    THEN IF HasIcon(entry) /\ IconText(entry).s # <<>>
                         THEN IconText(entry)
                         ELSE Synthetic(IdOf(entry))
                    ELSE IF HasIcon(entry) THEN IconText(entry)
                    ELSE PyStr(<<"U", "n", "k", "n", "o", "w", "n">>)

\* one build order with a catalog hit and a miss without an icon
C14_Witness ==
    /\ EnrichDone
    /\ \E i, j \in DOMAIN lookup_call.passed :
          /\ InCatalog(IdOf(lookup_call.passed[i]))
          /\ CarriesId(lookup_call.passed[i])
          /\ NameOf(lookup_call.returned[i]) = PyStr(<<"V", "i", "l">>)
          /\ CarriesId(lookup_call.passed[j])
          /\ ~HasIcon(lookup_call.passed[j])
          /\ NameOf(lookup_call.returned[j]) = Synthetic(PyInt(12))

(***************************************************************************)
(* C15: enrich_build_order maps element by element: the result is as long  *)
(* as the input, output i is input i with only the name field added or     *)
(* replaced, and the input list and its records are unchanged by the call. *)
(***************************************************************************)
SameButName(out, in) ==
    /\ IsObject(out)
    /\ DOMAIN out.d = DOMAIN in.d \cup {"name"}
    /\ \A k \in DOMAIN in.d \ {"name"} : out.d[k] = in.d[k]

C15_ElementWise ==
    EnrichDone =>
        /\ Len(lookup_call.returned) = Len(lookup_call.passed)
        /\ \A i \in DOMAIN lookup_call.passed :
              SameButName(lookup_call.returned[i], lookup_call.passed[i])
        /\ lookup_call.build_order = lookup_call.passed

\* two different entries, the first with a name that the call replaces in
\* the copy only
C15_Witness ==
    /\ EnrichDone
    /\ Len(lookup_call.passed) = 2
    /\ lookup_call.passed[1] # lookup_call.passed[2]
    /\ NameOf(lookup_call.passed[1]) = PyStr(<<"o", "l", "d">>)
    /\ NameOf(lookup_call.returned[1]) # PyStr(<<"o", "l", "d">>)
    /\ NameOf(lookup_call.build_order[1]) = PyStr(<<"o", "l", "d">>)
    /\ NameOf(lookup_call.passed[2]) = PyNone
    /\ NameOf(lookup_call.returned[2]) # PyNone

(***************************************************************************)
(* The coaching report (main.py).  Its texts are sequences of pieces: the  *)
(* characters of a text the code splits and strips, the literal parts and  *)
(* the inserted values of an f-string.                                     *)
(***************************************************************************)
\* a dict whose key order the code relies on (values(), items())
PyOrdered(order, d) == [t |-> "dict", d |-> d, order |-> order]

\* list(value.values())
Values(v) == [i \in DOMAIN v.order |-> v.d[v.order[i]]]

array_fields ==
    {"strengths", "improvements", "civ_recommendations", "map_advice",
     "training_plan"}

\* the characters of '- •*' (line 183)
BulletChars == {"-", " ", "(bullet)", "*"}

\* line 183: "if line.strip()"
NotBlank(line) == Strip(line, {" "}) # <<>>

\* lines 178-191 with any other value left as it is
NormalizeValue_keep(value) ==
    CASE value.t = "str" ->
            IF \E i \in DOMAIN value.s : value.s[i] = "\n"
            THEN LET lines == SelectSeq(Split(value.s, "\n"), NotBlank)
                 IN  PyList([i \in DOMAIN lines |->
                                PyStr(Strip(lines[i], BulletChars))])
            ELSE PyList(<<value>>)
      [] value.t = "dict" -> PyList(Values(value))
      [] value.t = "list" -> value
      [] OTHER -> value

\* lines 178-191: the value stored back into a field of array_fields
NormalizeValue(value) ==
    CASE value.t = "str" ->
            IF \E i \in DOMAIN value.s : value.s[i] = "\n"
            THEN LET lines == SelectSeq(Split(value.s, "\n"), NotBlank)
                 IN  PyList([i \in DOMAIN lines |->
                                PyStr(Strip(lines[i], BulletChars))])
            ELSE PyList(<<value>>)
      [] value.t = "dict" -> PyList(Values(value))
      [] value.t = "list" -> value
      [] OTHER -> PyList(<<PyStr(Formatted(value))>>)

IsStrOrDict(imp) == imp.t \in {"str", "dict"}

See_coaching_notes == PyStr(<<"See coaching notes">>)

\* a variant that wraps every kept element, objects included
NormalizeImprovements_rewrap(l) ==
    LET kept == SelectSeq(l, IsStrOrDict) IN
    [i \in DOMAIN kept |->
        PyDict([issue |-> kept[i], fix |-> See_coaching_notes])]

\* lines 194-202: strings become {"issue", "fix"} objects, objects stay,
\* anything else is left out
NormalizeImprovements(l) ==
    LET kept == SelectSeq(l, IsStrOrDict) IN
    [i \in DOMAIN kept |->
        IF kept[i].t = "str"
        THEN PyDict([issue |-> kept[i], fix |-> See_coaching_notes])
        ELSE kept[i]]

\* lines 171-204: the report as the call leaves and returns it; "field in
\* report" raises on a report that is a number or null and is false on a
\* list that does not hold the field's name
normalize_coaching_report(report) ==
    CASE report.t = "dict" ->
            LET first == [k \in DOMAIN report.d |->
                             IF k \in array_fields
                             THEN NormalizeValue(report.d[k])
                             ELSE report.d[k]]
            IN  [raised |-> FALSE,
                 value |->
                    [report EXCEPT !.d =
                        [k \in DOMAIN first |->
                            IF k = "improvements" /\ first[k].t = "list"
                            THEN PyList(NormalizeImprovements(first[k].l))
                            ELSE first[k]]]]
      [] report.t = "list" -> [raised |-> FALSE, value |-> report]
      [] OTHER -> [raised |-> TRUE, value |-> PyNone]

\* x >= n for a win rate or a rating x (an int or a float)
AtLeast(x, n) == IF x.t = "int" THEN x.i >= n ELSE x.num >= n * x.den

\* lines 320-329
RatingLetter_strict(win_rate) ==
    IF AtLeast(win_rate, 71) THEN "S"
    ELSE IF AtLeast(win_rate, 61) THEN "A"
    ELSE IF AtLeast(win_rate, 51) THEN "B"
    ELSE IF AtLeast(win_rate, 41) THEN "C"
    ELSE "D"

RatingLetter(win_rate) ==
    IF AtLeast(win_rate, 70) THEN "S"
    ELSE IF AtLeast(win_rate, 60) THEN "A"
    ELSE IF AtLeast(win_rate, 50) THEN "B"
    ELSE IF AtLeast(win_rate, 40) THEN "C"
    ELSE "D"

\* a < b for two win rates
Below(a, b) ==
    LET an == IF a.t = "int" THEN a.i ELSE a.num
        ad == IF a.t = "int" THEN 1 ELSE a.den
        bn == IF b.t = "int" THEN b.i ELSE b.num
        bd == IF b.t = "int" THEN 1 ELSE b.den
    IN  an * bd < bn * ad

GroupRate(civ_stats, k) == Get(civ_stats.d[k], "win_rate", PyInt(0))

\* line 333: max(civ_stats.items(), key=win rate)[0], the first of the
\* keys with the highest rate
BestCiv(civ_stats) ==
    IF ~Truthy(civ_stats) THEN "Unknown"
    ELSE LET o == civ_stats.order
             best == CHOOSE i \in DOMAIN o :
                        /\ \A j \in DOMAIN o :
                              ~Below(GroupRate(civ_stats, o[i]),
                                     GroupRate(civ_stats, o[j]))
                        /\ \A j \in 1..(i - 1) :
                              Below(GroupRate(civ_stats, o[j]),
                                    GroupRate(civ_stats, o[i]))
         IN  o[best]

\* line 334: min(...)[0], the first of the keys with the lowest rate
WorstCiv(civ_stats) ==
    IF ~Truthy(civ_stats) THEN "Unknown"
    ELSE LET o == civ_stats.order
             worst == CHOOSE i \in DOMAIN o :
                         /\ \A j \in DOMAIN o :
                               ~Below(GroupRate(civ_stats, o[j]),
                                      GroupRate(civ_stats, o[i]))
                         /\ \A j \in 1..(i - 1) :
                               Below(GroupRate(civ_stats, o[i]),
                                     GroupRate(civ_stats, o[j]))
         IN  o[worst]

Issue(issue, fix) == PyDict([issue |-> PyStr(issue), fix |-> PyStr(fix)])

\* lines 315-369
generate_template_report(an) ==
    LET win_rate == Get(an, "win_rate", PyInt(0))
        rating == RatingLetter(win_rate)
        civ_stats == Get(an, "civilization_stats", EmptyDict)
        best_civ == BestCiv(civ_stats)
        worst_civ == WorstCiv(civ_stats)
        current_rating == Get(an, "current_rating", PyInt(0))
    IN  PyDict(
          [rating |-> PyStr(<<rating>>),
           note |-> PyStr(<<"AI coaching requires OpenAI API key. Using template analysis.">>),
           strengths |-> PyList(<<
               IF best_civ # "Unknown"
               THEN PyStr(<<"Strong performance with ", best_civ>>)
               ELSE PyStr(<<"Consistent civ selection">>),
               IF AtLeast(current_rating, 1)
               THEN PyStr(<<"Maintaining ">> \o Formatted(current_rating)
                          \o <<" rating">>)
               ELSE PyStr(<<"Active ranked play">>)>>),
           improvements |-> PyList(<<
               IF worst_civ # "Unknown"
               THEN Issue(<<"Lower win rate with ", worst_civ>>,
                          <<"Practice ", worst_civ,
                            " build orders in skirmish mode">>)
               ELSE Issue(<<"Win rate below 50%">>,
                          <<"Focus on one civilization to master">>),
               Issue(<<"Review recent losses">>,
                     <<"Watch your own replays to identify mistakes">>)>>),
           civ_recommendations |-> PyList(<<
               IF best_civ # "Unknown"
               THEN PyStr(<<"Focus on ", best_civ,
                            " - your strongest civilization">>)
               ELSE PyStr(<<"Try English or French for beginners">>)>>),
           map_advice |-> PyList(<<
               PyStr(<<"Practice on Arabia and Arabia-like open maps">>),
               PyStr(<<"Learn walling patterns for closed maps">>)>>),
           training_plan |-> PyList(<<
               IF best_civ # "Unknown"
               THEN PyStr(<<"Play 5 games with ", best_civ>>)
               ELSE PyStr(<<"Pick one civ and play 5 games">>),
               PyStr(<<"Focus on consistent build order execution">>),
               PyStr(<<"Practice scouting in first 5 minutes">>),
               PyStr(<<"Review one loss replay after each session">>)>>)])

\* json.loads(content): the text of an answer is held together with the
\* value it parses to; a text that is not JSON has none and raises
\* JSONDecodeError
JsonText(value) == [t |-> "str", s |-> <<"(json)">>, loads |-> value]

IsJson(content) == "loads" \in DOMAIN content

AnalysisFailed ==
    PyStr(<<"AI analysis failed: ", "(exception)">>)

\* lines 206-313; completion is what chat.completions.create does: it
\* raises, or returns a message with content and, for some providers,
\* reasoning_content
generate_coaching_report(client, an, completion) ==
    IF client = PyNone THEN generate_template_report(an)
    ELSE IF completion.kind = "raise"
    THEN PyDict([error |-> AnalysisFailed,
                 fallback |-> generate_template_report(an)])
    ELSE LET message == completion.message
             content == IF ~Truthy(message.content)
                           /\ "reasoning_content" \in DOMAIN message
                        THEN message.reasoning_content
                        ELSE message.content
         IN  IF ~Truthy(content)
             THEN PyDict([error |-> PyStr(<<"Empty response from AI">>),
                          fallback |-> generate_template_report(an)])
             ELSE IF ~IsJson(content)
             THEN PyDict([raw_analysis |-> content,
                          error |-> PyStr(<<"Failed to parse AI response">>)])
             ELSE LET r == normalize_coaching_report(content.loads) IN
                  IF r.raised
                  THEN PyDict([error |-> AnalysisFailed,
                               fallback |->
                                   generate_template_report(an)])
                  ELSE r.value

\* lines 121-123 with a failed record emptying the list
ParseStep_reset(gs, g) == IF g # PyNone THEN Append(gs, g) ELSE <<>>

\* lines 121-123: if game: games.append(game)
ParseStep(gs, g) == IF g # PyNone THEN Append(gs, g) ELSE gs

\* lines 119-125: for i, game_data in enumerate(games_data)
RECURSIVE ParseLoop(_, _, _, _)
ParseLoop(games_data, i, pid, gs) ==
    IF i > Len(games_data) THEN gs
    ELSE ParseLoop(games_data, i + 1, pid,
                   ParseStep(gs, parse_game(games_data[i], pid).game))

\* lines 118-125: the games parse_game gives for the records, in order
ParsedGames(games_data, pid) == ParseLoop(games_data, 1, pid, <<>>)

\* lines 147-160: the compact form of a game in recent_games
RecentGame(g) ==
    PyDict([game_id |-> g.game_id, map |-> g.map,
            civilization |-> g.player_civ, result |-> g.player_result,
            rating |-> g.player_rating, rating_diff |-> g.player_rating_diff,
            opponent |-> PyDict([name |-> g.opponent_name,
                                 civilization |-> g.opponent_civ,
                                 rating |-> g.opponent_rating]),
            duration |-> g.duration])

\* lines 146-161 with games[-5:]
RecentGames_last(gs) ==
    PyList([i \in 1..(IF Len(gs) < 5 THEN Len(gs) ELSE 5) |->
               RecentGame(gs[i + (IF Len(gs) < 5 THEN 0 ELSE Len(gs) - 5)])])

\* lines 146-161: [RecentGame(g) for g in games[:5]]
RecentGames(gs) ==
    PyList([i \in 1..(IF Len(gs) < 5 THEN Len(gs) ELSE 5) |->
               RecentGame(gs[i])])

\* lines 163-168: {**coaching_report, "ai_generated": ..., ...}
WithProvenance(client, coaching_report) ==
    LET ai == client # PyNone /\ "error" \notin DOMAIN coaching_report.d
        extra == {"ai_generated", "ai_provider", "disclaimer"}
    IN  PyDict([k \in DOMAIN coaching_report.d \cup extra |->
                   CASE k = "ai_generated" -> ai
                     [] k = "ai_provider" ->
                           IF ai THEN PyStr(<<client.provider>>) ELSE PyNone
                     [] k = "disclaimer" ->
                           IF ai
                           THEN PyStr(<<"AI-Generated Coaching Advice (",
                                        client.provider, ")">>)
                           ELSE PyStr(<<"Template Report (Configure OPENAI_API_KEY or ZAI_API_KEY for AI coaching)">>)
                     [] OTHER -> coaching_report.d[k]])

NotRun == [t |-> "not run"]

\* aoe4world_client.py lines 103-110 with the status left unread
get_player_any_status(response) == response.json

\* aoe4world_client.py lines 103-110: the body of a 200 answer, None for
\* any other status
get_player(response) ==
    IF response.status = 200 THEN response.json ELSE PyNone

\* lines 85-169: what the request does and answers; player is what
\* get_player returned, games_data what get_player_games returned and
\* completion what the AI client does when it is called.  status is 200
\* for the returned body, 404 for the HTTPException of line 105 and 500
\* when an exception leaves the handler.
get_player_analysis(client, pid, player, games_data, completion) ==
    IF ~Truthy(player)
    THEN [status |-> 404, calls |-> <<"get_player">>,
          games |-> NotRun, analysis |-> NotRun, coaching_report |-> NotRun,
          body |-> PyDict([detail |-> PyStr(<<"Player not found">>)])]
    ELSE LET gs == ParsedGames(games_data, pid)
             an == analyze_performance(gs)
             coaching_report == generate_coaching_report(client, an, completion)
             calls == <<"get_player", "get_player_games">>
                      \o [i \in DOMAIN games_data |-> "parse_game"]
                      \o <<"analyze_performance", "generate_coaching_report">>
                      \o (IF client = PyNone THEN <<>>
                          ELSE <<"chat.completions.create">>)
         IN  IF coaching_report.t # "dict"
             THEN [status |-> 500, calls |-> calls, games |-> gs,
                   analysis |-> an, coaching_report |-> coaching_report,
                   body |-> PyNone]
             ELSE [status |-> 200, calls |-> calls, games |-> gs,
                   analysis |-> an, coaching_report |-> coaching_report,
                   body |->
                      PyDict([success |-> TRUE,
                              player |->
                                 PyDict([k \in {"profile_id", "name",
                                                "steam_id", "country",
                                                "avatar_url"} |->
                                            Get(player, k, PyNone)]),
                              analysis |-> an,
                              recent_games |-> RecentGames(gs),
                              coaching_report |->
                                 WithProvenance(client, coaching_report)])]

\* lines 400-405: the helper of get_game_build_order
format_time(seconds) ==
    IF seconds = PyNone THEN PyNone
    ELSE LET mins == seconds.i \div 60
             secs == seconds.i % 60
         IN  PyStr(Decimal(mins) \o <<":">>
                   \o (IF secs < 10 THEN <<"0">> ELSE <<>>) \o Decimal(secs))

\* lines 411-462: the attributes of game_summary the response reads, in
\* the order the dict display reads them
AttributesRead ==
    <<"game_id", "map_name", "duration", "win_reason", "player_name",
      "player_civ", "player_result", "player_apm", "final_score",
      "total_resources_gathered", "total_resources_spent", "opponent_name",
      "opponent_civ", "opponent_apm", "feudal_age_time", "castle_age_time",
      "imperial_age_time", "opponent_feudal_age_time",
      "opponent_castle_age_time", "opponent_imperial_age_time",
      "build_order", "opponent_build_order">>

\* the attributes read that the object does not have, in reading order
MissingAttributes(obj) ==
    SelectSeq(AttributesRead, LAMBDA a : a \notin DOMAIN obj)

AgeTiming(seconds) ==
    PyDict([seconds |-> seconds, formatted |-> format_time(seconds)])

\* lines 408-464
BuildOrderBody(gs, fetched) ==
    PyDict(
      [success |-> TRUE,
       game |-> PyDict([game_id |-> gs.game_id, map |-> gs.map_name,
                        duration |-> gs.duration,
                        duration_formatted |-> format_time(gs.duration),
                        win_reason |-> gs.win_reason]),
       player |-> PyDict([name |-> gs.player_name,
                          civilization |-> gs.player_civ,
                          result |-> gs.player_result,
                          apm |-> gs.player_apm,
                          final_score |-> gs.final_score,
                          resources_gathered |-> gs.total_resources_gathered,
                          resources_spent |-> gs.total_resources_spent]),
       opponent |-> PyDict([name |-> gs.opponent_name,
                            civilization |-> gs.opponent_civ,
                            apm |-> gs.opponent_apm]),
       timings |->
          PyDict([player |->
                     PyDict([feudal_age |-> AgeTiming(gs.feudal_age_time),
                             castle_age |-> AgeTiming(gs.castle_age_time),
                             imperial_age |->
                                AgeTiming(gs.imperial_age_time)]),
                  opponent |->
                     PyDict([feudal_age |->
                                AgeTiming(gs.opponent_feudal_age_time),
                             castle_age |->
                                AgeTiming(gs.opponent_castle_age_time),
                             imperial_age |->
                                AgeTiming(gs.opponent_imperial_age_time)])]),
       build_order |-> gs.build_order,
       opponent_build_order |-> gs.opponent_build_order,
       raw_data |-> fetched])

\* lines 371-464: what the request answers; fetched is what
\* get_game_summary returned.  status is 200 for the returned body, 404 and
\* 500 with a detail for the HTTPExceptions of lines 391 and 397, and 500
\* with the name of the exception when one leaves the handler.
get_game_build_order(pid, fetched) ==
    IF ~Truthy(fetched)
    THEN [status |-> 404, raised |-> "HTTPException", summary |-> NotRun,
          body |-> PyDict([detail |->
                     PyStr(<<"Game not found or not accessible">>)])]
    ELSE LET gs == parse_game_summary(fetched, pid).summary IN
         IF gs = PyNone
         THEN [status |-> 500, raised |-> "HTTPException", summary |-> gs,
               body |-> PyDict([detail |->
                          PyStr(<<"Failed to parse game data">>)])]
         ELSE IF MissingAttributes(gs) # <<>>
         THEN [status |-> 500, raised |-> "AttributeError", summary |-> gs,
               body |-> PyDict([attribute |->
                          PyStr(<<MissingAttributes(gs)[1]>>)])]
         ELSE [status |-> 200, raised |-> "none", summary |-> gs,
               body |-> BuildOrderBody(gs, fetched)]

(***************************************************************************)
(* Inputs: what the upstream services and the AI provider answer           *)
(***************************************************************************)
MaxRecords == 3   \* match records in an answer, in any order
MaxTally == 10    \* match records in an answer of wins followed by losses

OpenAIClient == [t |-> "OpenAI", provider |-> "openai"]

Profile == PyDict([profile_id |-> PyInt(1), name |-> PyStr("ann")])

\* answers of the profile endpoint that hold no player
NoProfile ==
    {Http(404, PyDict([error |-> PyStr("Not Found")])),
     Http(200, EmptyDict), Http(200, PyNone)}

MatchRecord(me) ==
    PyDict([game_id |-> PyInt(42),
            started_at |-> PyStr("2024-01-01T10:00:00Z"),
            duration |-> PyInt(900), map |-> PyStr("Dry Arabia"),
            kind |-> PyStr("rm_solo"),
            teams |-> PyList(<<PyList(<<me>>), PyList(<<P_str2>>)>>)])

WonRecord == MatchRecord(Wrap(P_int1))
LostRecord == MatchRecord(P_str1)
BrokenRecord == PyDict([game_id |-> PyInt(43)])

Tally(wins, losses) ==
    [i \in 1..(wins + losses) |-> IF i <= wins THEN WonRecord ELSE LostRecord]

Chars_bullets == <<"-", " ", "a", "\n", "\n", " ", "*", " ", "b", "\n">>

Mapping == PyOrdered(<<"k2", "k1">>, [k1 |-> PyStr(<<"a">>), k2 |-> PyInt(5)])

Mixed == PyList(<<PyStr(<<"a">>), PyInt(3), Issue(<<"i">>, <<"f">>)>>)

\* the values a model puts under a field of its answer
FieldValues ==
    {PyStr(<<"a">>), PyStr(Chars_bullets), PyStr(<<>>),
     PyStr(<<"-", "\n", "a">>), PyList(<<>>), Mixed, Mapping,
     PyInt(5), PyNone}

ModelReport ==
    PyDict([rating |-> PyStr(<<"A">>), strengths |-> PyStr(Chars_bullets),
            improvements |-> Mixed, map_advice |-> Mapping,
            training_plan |-> PyInt(5)])

ErrorKeyReport ==
    PyDict([rating |-> PyStr(<<"B">>), error |-> PyStr(<<"none">>)])

\* the objects a model answers with, and two answers that are not objects
Narratives ==
    {PyDict([k \in {"rating", f} |->
                IF k = f THEN v ELSE PyStr(<<"B">>)]) :
        f \in array_fields, v \in FieldValues}
    \cup {ModelReport, ErrorKeyReport, EmptyDict,
          PyList(<<PyInt(1)>>), PyInt(5)}

Message(content) == [kind |-> "message", message |-> [content |-> content]]

Reasoning(content, reasoning_content) ==
    [kind |-> "message",
     message |-> [content |-> content,
                  reasoning_content |-> reasoning_content]]

NotJson == PyStr(<<"Sure, here is your report">>)

\* what chat.completions.create does: it raises, or answers with no
\* content, with text that is not JSON, or with a JSON value
Completions ==
    {[kind |-> "raise"], Message(PyNone), Message(PyStr(<<>>)),
     Reasoning(PyNone, PyNone), Reasoning(PyStr(<<>>), JsonText(ModelReport)),
     Message(NotJson), Message(JsonText(ModelReport)),
     Message(JsonText(ErrorKeyReport)), Message(JsonText(EmptyDict)),
     Message(JsonText(PyList(<<PyInt(1)>>))), Message(JsonText(PyInt(5))),
     Message(JsonText(PyNone))}

(***************************************************************************)
(* Specification of the report: the module is imported with or without an  *)
(* AI client, and a run makes one call                                     *)
(***************************************************************************)
InitReport == \E client \in {PyNone, OpenAIClient} : Constructed(client)

GetPlayerAnalysisOn(response, games_data, completion) ==
    \E r \in {get_player_analysis(ai_client, PyStr("1"),
                                  get_player(response), games_data,
                                  completion)} :
        report_call' = [op |-> "get_player_analysis",
                        profile_id |-> PyStr("1"),
                        profile_response |-> response,
                        player_data |-> get_player(response),
                        games_data |-> games_data,
                        completion |-> completion,
                        calls |-> r.calls,
                        games |-> r.games,
                        analysis |-> r.analysis,
                        coaching_report |-> r.coaching_report,
                        status |-> r.status,
                        body |-> r.body]

GetPlayerAnalysis ==
    /\ report_call.op = "none"
    /\ \E completion \in IF ai_client = PyNone THEN {[kind |-> "not called"]}
                         ELSE Completions :
          \/ \E response \in NoProfile :
                GetPlayerAnalysisOn(response, <<WonRecord>>, completion)
          \/ \E n \in 0..MaxRecords :
                \E games_data \in SeqsOfLen({WonRecord, LostRecord,
                                             BrokenRecord}, n) :
                   GetPlayerAnalysisOn(Http(200, Profile), games_data,
                                       completion)
          \/ \E n \in 0..MaxTally : \E wins \in 0..n :
                GetPlayerAnalysisOn(Http(200, Profile),
                                    Tally(wins, n - wins), completion)
    /\ UNCHANGED <<clientVars, lookupVars, ai_client, scriptVars>>

NormalizeCoachingReport ==
    /\ report_call.op = "none"
    /\ \E report \in Narratives :
          LET r == normalize_coaching_report(report)
          IN  report_call' = [op |-> "normalize_coaching_report",
                              passed |-> report,
                              raised |-> r.raised,
                              returned |-> r.value]
    /\ UNCHANGED <<clientVars, lookupVars, ai_client, scriptVars>>

\* lines 171-204 once more, on the report the first call returned (the call
\* changes its argument in place and returns it)
NormalizeAgain ==
    /\ report_call.op = "normalize_coaching_report"
    /\ ~report_call.raised
    /\ "again" \notin DOMAIN report_call
    /\ \E r \in {normalize_coaching_report(report_call.returned)} :
          report_call' = [op |-> "normalize_coaching_report",
                          passed |-> report_call.passed,
                          raised |-> r.raised,
                          returned |-> report_call.returned,
                          again |-> r.value]
    /\ UNCHANGED <<clientVars, lookupVars, ai_client, scriptVars>>

MaxBuildOrderPlayers == 2   \* players of a fetched match summary

FetchedSummaries ==
    {PyNone, EmptyDict, PyDict([gameId |-> PyInt(42)])}
    \cup {PyDict([gameId |-> PyInt(42), duration |-> PyInt(905),
                  players |-> PyList(l)]) :
          l \in UNION {SeqsOfLen(SummaryEntries, n) :
                       n \in 0..MaxBuildOrderPlayers}}

GetGameBuildOrder ==
    /\ report_call.op = "none"
    /\ \E fetched \in FetchedSummaries :
          \E r \in {get_game_build_order(PyStr("1"), fetched)} :
             report_call' = [op |-> "get_game_build_order",
                             profile_id |-> PyStr("1"),
                             fetched |-> fetched,
                             summary |-> r.summary,
                             status |-> r.status,
                             raised |-> r.raised,
                             body |-> r.body]
    /\ UNCHANGED <<clientVars, lookupVars, ai_client, scriptVars>>

NextReport ==
    \/ GetPlayerAnalysis
    \/ NormalizeCoachingReport
    \/ NormalizeAgain
    \/ GetGameBuildOrder

SpecReport == InitReport /\ [][NextReport]_vars

(***************************************************************************)
(* Vocabulary of the properties of the report                              *)
(***************************************************************************)
Answered == report_call.op = "get_player_analysis" /\ report_call.status = 200

NarrativeCalled ==
    /\ report_call.op = "get_player_analysis"
    /\ report_call.status # 404
    /\ ai_client # PyNone

\* the text the narrative call produced, null when it produced none
AnswerText ==
    LET c == report_call.completion IN
    IF c.kind # "message" THEN PyNone
    ELSE IF c.message.content # PyNone /\ c.message.content.s # <<>>
    THEN c.message.content
    ELSE IF "reasoning_content" \in DOMAIN c.message
    THEN c.message.reasoning_content
    ELSE PyNone

NarrativeRaised == NarrativeCalled /\ report_call.completion.kind = "raise"

NarrativeEmpty ==
    /\ NarrativeCalled /\ ~NarrativeRaised
    /\ (AnswerText = PyNone \/ AnswerText.s = <<>>)

NarrativeMalformed ==
    /\ NarrativeCalled /\ ~NarrativeRaised /\ ~NarrativeEmpty
    /\ "loads" \notin DOMAIN AnswerText

NarrativeFailed == NarrativeRaised \/ NarrativeEmpty \/ NarrativeMalformed

\* the answer parsed as JSON into an object
ParsedObject ==
    /\ NarrativeCalled /\ ~NarrativeFailed
    /\ AnswerText.loads.t = "dict"

(***************************************************************************)
(* C16: whenever the narrative call fails (exception, empty content,       *)
(* output that is not JSON) the report generate_coaching_report hands      *)
(* back is the deterministic template report of the performance summary.   *)
(***************************************************************************)
C16_FailureGivesTemplate ==
    NarrativeFailed =>
        report_call.coaching_report =
            generate_template_report(report_call.analysis)

(***************************************************************************)
(* C17: in the player-analysis response ai_generated is false for every    *)
(* report that is not model-derived (no AI client, call failure, empty or  *)
(* unparseable output) and true for every report parsed from the model's   *)
(* output, whatever keys that output contains.                             *)
(***************************************************************************)
C17_Provenance ==
    Answered =>
        (report_call.body.d["coaching_report"].d["ai_generated"]
            <=> ParsedObject)

(***************************************************************************)
(* C18 as stated: every list-typed field present is a list after           *)
(* normalize_coaching_report: a string is split into its lines or bullet   *)
(* items, a mapping becomes the list of its values, any other scalar a     *)
(* single-element list, a list stays a list.  The improvements field is    *)
(* rewritten once more.                                                    *)
(***************************************************************************)
Normalized ==
    /\ report_call.op = "normalize_coaching_report"
    /\ ~report_call.raised
    /\ report_call.passed.t = "dict"

ListFields ==
    {"strengths", "improvements", "civ_recommendations", "map_advice",
     "training_plan"}

Newlines(cs) == {i \in DOMAIN cs : cs[i] = "\n"}

\* the k-th line of a text, counted from 1
LineAt(cs, k) ==
    LET before == {i \in Newlines(cs) :
                      Cardinality({j \in Newlines(cs) : j <= i}) = k - 1}
        after == {i \in Newlines(cs) :
                     Cardinality({j \in Newlines(cs) : j <= i}) = k}
        from == IF before = {} THEN 1 ELSE MaxOf(before) + 1
        to == IF after = {} THEN Len(cs) ELSE MinOf(after) - 1
    IN  SubSeq(cs, from, to)

\* a line without the bullet characters and spaces at its two ends
Trimmed(line) ==
    LET inner == {i \in DOMAIN line : line[i] \notin {"-", " ", "(bullet)", "*"}}
    IN  IF inner = {} THEN <<>>
        ELSE SubSeq(line, MinOf(inner), MaxOf(inner))

HasInk(line) == \E i \in DOMAIN line : line[i] # " "

\* the items of a text: the text itself when it is a single line, else
\* its lines that are not blank, trimmed
ItemsOfText(cs) ==
    IF Newlines(cs) = {} THEN <<PyStr(cs)>>
    ELSE LET all == [k \in 1..(Cardinality(Newlines(cs)) + 1) |->
                        LineAt(cs, k)]
             inked == SelectSeq(all, HasInk)
         IN  [k \in DOMAIN inked |-> PyStr(Trimmed(inked[k]))]

ValuesInOrder(m) == [i \in DOMAIN m.order |-> m.d[m.order[i]]]

\* what the claim says a field value becomes
AsList(v, out) ==
    /\ out.t = "list"
    /\ v.t = "str" => out.l = ItemsOfText(v.s)
    /\ v.t = "dict" => out.l = ValuesInOrder(v)
    /\ v.t = "list" => out = v
    /\ v.t \notin {"str", "dict", "list"} => Len(out.l) = 1

C18_Original ==
    Normalized =>
        \A f \in ListFields \cap DOMAIN report_call.passed.d :
           AsList(report_call.passed.d[f], report_call.returned.d[f])

(***************************************************************************)
(* C18: every list-typed field present is a list after                     *)
(* normalize_coaching_report.  For strengths, civ_recommendations,         *)
(* map_advice and training_plan a string is split into its lines or bullet *)
(* items, a mapping becomes the list of its values, any other scalar a     *)
(* single-element list and a list stays as it is.  For improvements the    *)
(* list so obtained is rewritten: each string in it becomes an object      *)
(* {issue, fix}, each object stays, and every other element is dropped.    *)
(***************************************************************************)
\* the list the first four fields would get for v
ListFor(v) ==
    CASE v.t = "str" -> ItemsOfText(v.s)
      [] v.t = "dict" -> ValuesInOrder(v)
      [] v.t = "list" -> v.l
      [] OTHER -> <<PyStr(IF v = PyNone THEN <<"N", "o", "n", "e">>
                         ELSE <<"5">>)>>

TextOrObject(v) == v.t \in {"str", "dict"}

AsImprovements(v, out) ==
    LET kept == SelectSeq(ListFor(v), TextOrObject) IN
    /\ out.t = "list"
    /\ Len(out.l) = Len(kept)
    /\ \A i \in DOMAIN kept :
          IF kept[i].t = "dict" THEN out.l[i] = kept[i]
          ELSE /\ out.l[i].t = "dict"
               /\ DOMAIN out.l[i].d = {"issue", "fix"}
               /\ out.l[i].d["issue"] = kept[i]

C18_ListFields ==
    Normalized =>
        \A f \in ListFields \cap DOMAIN report_call.passed.d :
           IF f = "improvements"
           THEN AsImprovements(report_call.passed.d[f],
                               report_call.returned.d[f])
           ELSE /\ AsList(report_call.passed.d[f], report_call.returned.d[f])
                /\ report_call.returned.d[f].l = ListFor(report_call.passed.d[f])

\* a bulleted text under strengths came back as its two items
C18_Witness ==
    /\ Normalized
    /\ "strengths" \in DOMAIN report_call.passed.d
    /\ report_call.passed.d["strengths"] =
          PyStr(<<"-", " ", "a", "\n", "\n", " ", "*", " ", "b", "\n">>)
    /\ report_call.returned.d["strengths"] =
          PyList(<<PyStr(<<"a">>), PyStr(<<"b">>)>>)

(***************************************************************************)
(* C19: the template report's rating letter is S for a win rate >= 70, A   *)
(* for >= 60, B for >= 50, C for >= 40 and D otherwise (D for an empty     *)
(* summary), and the response assembled from a summary and its template    *)
(* narrative carries the letter re-derived from the summary alone.         *)
(***************************************************************************)
TemplateAnswered == Answered /\ ai_client = PyNone

\* the summary's win rate in tenths of a percent, 0 for an empty summary
WinRateTenths(an) ==
    IF "win_rate" \notin DOMAIN an.d THEN 0
    ELSE (10 * an.d["win_rate"].num) \div an.d["win_rate"].den

LetterOf(an) ==
    LET w == WinRateTenths(an) IN
    CASE w >= 700 -> "S"
      [] w < 700 /\ w >= 600 -> "A"
      [] w < 600 /\ w >= 500 -> "B"
      [] w < 500 /\ w >= 400 -> "C"
      [] w < 400 -> "D"

C19_RatingLetter ==
    TemplateAnswered =>
        /\ report_call.coaching_report.d["rating"] =
              PyStr(<<LetterOf(report_call.analysis)>>)
        /\ report_call.body.d["coaching_report"].d["rating"] =
              PyStr(<<LetterOf(report_call.body.d["analysis"])>>)

\* seven wins in ten games: a win rate of exactly 70 and the letter S
C19_Witness ==
    /\ TemplateAnswered
    /\ Len(report_call.games) = 10
    /\ WinRateTenths(report_call.analysis) = 700
    /\ report_call.body.d["coaching_report"].d["rating"] = PyStr(<<"S">>)

(***************************************************************************)
(* Age timing grades (example_build_order_analysis.py)                     *)
(***************************************************************************)
Benchmark(optimal, good, average) ==
    [optimal |-> optimal, good |-> good, average |-> average]

\* lines 11-36
BENCHMARKS ==
    [english |-> [feudal_age |-> Benchmark(300, 330, 360),
                  castle_age |-> Benchmark(780, 840, 900)],
     default |-> [feudal_age |-> Benchmark(300, 330, 360),
                  castle_age |-> Benchmark(900, 960, 1020)]]

\* lines 56-74 with "<" in place of "<="
TimingRating_strict(actual, benchmarks) ==
    IF actual < benchmarks.optimal THEN "Excellent"
    ELSE IF actual < benchmarks.good THEN "Good"
    ELSE IF actual < benchmarks.average THEN "Average"
    ELSE "Slow"

\* lines 56-74: the branch taken
TimingRating(actual, benchmarks) ==
    IF actual <= benchmarks.optimal THEN "Excellent"
    ELSE IF actual <= benchmarks.good THEN "Good"
    ELSE IF actual <= benchmarks.average THEN "Average"
    ELSE "Slow"

\* lines 58-74: the emoji and the feedback sentence of each branch
TimingEmoji(rating) ==
    CASE rating = "Excellent" -> "(star)"
      [] rating = "Good" -> "(check)"
      [] rating = "Average" -> "(warning)"
      [] rating = "Slow" -> "(cross)"

TimingFeedback(rating, actual, benchmarks) ==
    LET diff == actual - benchmarks.optimal
        diff_from_optimal == actual - benchmarks.optimal
    IN  CASE rating = "Excellent" ->
                <<"Outstanding timing! ">>
                \o Decimal(IF diff < 0 THEN -diff ELSE diff)
                \o <<"s ahead of optimal.">>
          [] rating = "Good" ->
                <<"Solid timing. ">> \o Decimal(diff_from_optimal)
                \o <<"s slower than optimal.">>
          [] rating = "Average" ->
                <<"Room for improvement. ">> \o Decimal(diff_from_optimal)
                \o <<"s slower than optimal.">>
          [] rating = "Slow" ->
                <<"Significantly delayed. ">> \o Decimal(diff_from_optimal)
                \o <<"s slower than optimal.">>

\* lines 46-81
analyze_age_timing(actual, civ, age) ==
    LET civ_benchmarks == IF civ \in DOMAIN BENCHMARKS THEN BENCHMARKS[civ]
                          ELSE BENCHMARKS["default"]
    IN  IF age \notin DOMAIN civ_benchmarks
        THEN PyDict([rating |-> PyStr(<<"N/A">>),
                     feedback |-> PyStr(<<"No benchmarks available">>)])
        ELSE LET benchmarks == civ_benchmarks[age]
                 rating == TimingRating(actual, benchmarks)
             IN  PyDict([rating |-> PyStr(<<rating>>),
                         emoji |-> PyStr(<<TimingEmoji(rating)>>),
                         feedback |->
                             PyStr(TimingFeedback(rating, actual, benchmarks)),
                         benchmarks |-> benchmarks])

(***************************************************************************)
(* Gather rate of analyze_build_order (example_build_order_analysis.py)    *)
(***************************************************************************)
\* a local the function has not assigned
Unbound == [t |-> "unbound"]

\* line 140 without the "* 60"
gather_rate_per_min_per_second(resources, duration) ==
    PyFloat(Get(resources, "total", PyInt(0)).i, duration)

\* line 140: (resources.get('total', 0) / duration) * 60
gather_rate_per_min(resources, duration) ==
    PyFloat(Get(resources, "total", PyInt(0)).i * 60, duration)

\* line 141: f"{gather_rate_per_min:.0f}"
Formatted_0f(x) == Decimal(RoundHalfEven(x.num, x.den))

\* lines 138-141: the local gather_rate_per_min when the block is left and
\* the line it printed, none when the block was skipped
GatherRate(resources, duration) ==
    IF duration > 0
    THEN LET rate == gather_rate_per_min(resources, duration)
         IN  [gather_rate_per_min |-> rate,
              printed |-> <<<<"Gather Rate: ">> \o Formatted_0f(rate)
                            \o <<" resources/min">>>>]
    ELSE [gather_rate_per_min |-> Unbound, printed |-> <<>>]

(***************************************************************************)
(* Inputs and specification of the build order analysis: a run grades   *)
(* one age-up time or works out one gather rate                            *)
(***************************************************************************)
MaxSlack == 1   \* seconds around each benchmark that are tried

Thresholds == {300, 330, 360, 780, 840, 900, 960, 1020}

Times ==
    {312} \cup UNION {(b - MaxSlack)..(b + MaxSlack) : b \in Thresholds}

Civs == {"english", "french", "default"}

Ages == {"feudal_age", "castle_age", "imperial_age"}

AnalyzeAgeTiming ==
    /\ timing_call.op = "none"
    /\ \E actual \in Times, civ \in Civs, age \in Ages :
          timing_call' = [op |-> "analyze_age_timing", actual |-> actual,
                          civ |-> civ, age |-> age,
                          returned |-> analyze_age_timing(actual, civ, age)]
    /\ UNCHANGED <<clientVars, lookupVars, reportVars, military_call>>

MaxDuration == 8   \* seconds a short match lasts
MaxTotal == 5      \* resources gathered in a short match

Durations == (-1)..MaxDuration \cup {60, 120}

ResourceTotals ==
    {PyDict([food |-> PyInt(3)])}
    \cup {PyDict([total |-> PyInt(n)]) : n \in (0..MaxTotal) \cup {100}}

AnalyzeGatherRate ==
    /\ timing_call.op = "none"
    /\ \E resources \in ResourceTotals, duration \in Durations :
          \E r \in {GatherRate(resources, duration)} :
             timing_call' = [op |-> "gather_rate", resources |-> resources,
                             duration |-> duration,
                             gather_rate_per_min |-> r.gather_rate_per_min,
                             printed |-> r.printed]
    /\ UNCHANGED <<clientVars, lookupVars, reportVars, military_call>>

NextTiming == AnalyzeAgeTiming \/ AnalyzeGatherRate

SpecTiming == Init /\ [][NextTiming]_vars

(***************************************************************************)
(* C20: analyze_age_timing grades a time t against the faction's           *)
(* benchmark, the default table standing in for an unknown faction:        *)
(* Excellent if t <= optimal, Good if optimal < t <= good, Average if      *)
(* good < t <= average, Slow otherwise, and the delta it reports is        *)
(* t - optimal; 312 against an optimal of 300 is Good with a delta of 12.  *)
(***************************************************************************)
\* the benchmark table as the documentation of the file gives it:
\* optimal, good, average in seconds
BenchmarkOf(civ, age) ==
    CASE civ = "english" /\ age = "feudal_age" -> <<300, 330, 360>>
      [] civ = "english" /\ age = "castle_age" -> <<780, 840, 900>>
      [] civ # "english" /\ age = "feudal_age" -> <<300, 330, 360>>
      [] civ # "english" /\ age = "castle_age" -> <<900, 960, 1020>>

Graded ==
    /\ timing_call.op = "analyze_age_timing"
    /\ timing_call.age \in {"feudal_age", "castle_age"}

DigitValue(c) ==
    CASE c = "0" -> 0 [] c = "1" -> 1 [] c = "2" -> 2 [] c = "3" -> 3
      [] c = "4" -> 4 [] c = "5" -> 5 [] c = "6" -> 6 [] c = "7" -> 7
      [] c = "8" -> 8 [] c = "9" -> 9

IsDigit(c) == c \in {"0", "1", "2", "3", "4", "5", "6", "7", "8", "9"}

RECURSIVE NumberOf(_)
NumberOf(digits) ==
    IF digits = <<>> THEN 0
    ELSE 10 * NumberOf(SubSeq(digits, 1, Len(digits) - 1))
         + DigitValue(digits[Len(digits)])

\* the seconds the feedback sentence states, negative when it says "ahead"
ReportedDelta(feedback) ==
    LET n == NumberOf(SelectSeq(feedback.s, IsDigit))
    IN  IF feedback.s[Len(feedback.s)] = "s ahead of optimal." THEN -n ELSE n

C20_AgeTimingGrade ==
    Graded =>
        LET t == timing_call.actual
            b == BenchmarkOf(timing_call.civ, timing_call.age)
            r == timing_call.returned.d
        IN  /\ r["rating"] =
                  PyStr(<<CASE t <= b[1] -> "Excellent"
                            [] b[1] < t /\ t <= b[2] -> "Good"
                            [] b[2] < t /\ t <= b[3] -> "Average"
                            [] b[3] < t -> "Slow">>)
            /\ ReportedDelta(r["feedback"]) = t - b[1]
            /\ IsDigit(r["feedback"].s[2])

\* 312 seconds against the optimal 300 of an unknown faction
C20_Witness ==
    /\ Graded
    /\ timing_call.actual = 312
    /\ timing_call.civ = "french"
    /\ timing_call.age = "feudal_age"
    /\ timing_call.returned.d["rating"] = PyStr(<<"Good">>)
    /\ ReportedDelta(timing_call.returned.d["feedback"]) = 12

(***************************************************************************)
(* C21 as stated: the gather rate is exactly 0 when the match lasted 0     *)
(* seconds, whatever the totals, and total / duration * 60 otherwise.      *)
(***************************************************************************)
GatherDone == timing_call.op = "gather_rate"

TotalGathered ==
    IF "total" \in DOMAIN timing_call.resources.d
    THEN timing_call.resources.d["total"].i ELSE 0

\* the rate is the number num / den
RateIs(rate, num, den) ==
    /\ rate.t = "float"
    /\ rate.den # 0
    /\ rate.num * den = num * rate.den

C21_Original ==
    GatherDone =>
        IF timing_call.duration = 0
        THEN RateIs(timing_call.gather_rate_per_min, 0, 1)
        ELSE RateIs(timing_call.gather_rate_per_min,
                    60 * TotalGathered, timing_call.duration)

(***************************************************************************)
(* C21: for a match that lasted more than 0 seconds the gather rate is     *)
(* total / duration * 60, the total being 0 when none is recorded, and it  *)
(* is printed rounded to a whole number; for a duration of 0 (or below)    *)
(* no rate is worked out and no line is printed, so nothing is divided     *)
(* by zero.                                                                *)
(***************************************************************************)
C21_GatherRate ==
    GatherDone =>
        IF timing_call.duration > 0
        THEN /\ RateIs(timing_call.gather_rate_per_min,
                       60 * TotalGathered, timing_call.duration)
             /\ Len(timing_call.printed) = 1
             /\ LET shown == NumberOf(SelectSeq(timing_call.printed[1],
                                                IsDigit))
                IN  2 * Abs(shown * timing_call.duration
                            - 60 * TotalGathered) <= timing_call.duration
        ELSE /\ timing_call.gather_rate_per_min = Unbound
             /\ timing_call.printed = <<>>

\* a match of 0 seconds with resources gathered: no rate, no line
C21_Witness ==
    /\ GatherDone
    /\ timing_call.duration = 0
    /\ TotalGathered = 100
    /\ timing_call.gather_rate_per_min = Unbound
    /\ timing_call.printed = <<>>

\* 5 resources in 8 seconds: 37.5 a minute, printed as 38
C21_RateWitness ==
    /\ GatherDone
    /\ timing_call.duration = 8
    /\ TotalGathered = 5
    /\ RateIs(timing_call.gather_rate_per_min, 75, 2)
    /\ timing_call.printed =
          <<<<"Gather Rate: ", "3", "8", " resources/min">>>>

(***************************************************************************)
(* Unit tally of analyze_military.py                                       *)
(***************************************************************************)
\* c.lower() for the letters the inputs use
LowerChar(c) ==
    CASE c = "A" -> "a" [] c = "S" -> "s" [] c = "V" -> "v" [] OTHER -> c

\* s.lower()
Lower(cs) == [i \in DOMAIN cs |-> LowerChar(cs[i])]

\* "word in s"
Contains(cs, word) ==
    \E i \in 1..(Len(cs) - Len(word) + 1) :
        SubSeq(cs, i, i + Len(word) - 1) = word

villager == <<"v", "i", "l", "l", "a", "g", "e", "r">>
scout == <<"s", "c", "o", "u", "t">>

\* lines 15-21 and 24-30: one pass of a tally loop; units maps a unit
\* name to the count stored for it
UnitStep(units, bo) ==
    LET icon == Get(bo, "icon", PyStr(<<>>)).s
        unit_type == Get(bo, "type", PyStr(<<>>))
        finished == Get(bo, "finished", PyList(<<>>))
        pieces == Split(icon, "/")
        unit_name == pieces[Len(pieces)]
    IN  IF /\ unit_type = PyStr(<<"Unit">>)
           /\ ~Contains(Lower(icon), villager)
           /\ ~Contains(Lower(icon), scout)
        THEN [k \in DOMAIN units \cup {unit_name} |->
                 IF k = unit_name THEN Len(finished.l) ELSE units[k]]
        ELSE units

RECURSIVE UnitLoop(_, _, _)
UnitLoop(build_order, i, units) ==
    IF i > Len(build_order) THEN units
    ELSE UnitLoop(build_order, i + 1, UnitStep(units, build_order[i]))

\* lines 61-68: the keywords of each class of units
Keywords ==
    [longbow |-> {<<"a", "r", "c", "h", "e", "r">>},
     knight |-> {<<"k", "n", "i", "g", "h", "t">>,
                 <<"h", "o", "r", "s", "e", "m", "a", "n">>},
     infantry |-> {<<"m", "a", "n", "a", "t", "a", "r", "m", "s">>,
                   <<"s", "p", "e", "a", "r", "m", "a", "n">>},
     siege |-> {<<"t", "r", "e", "b", "u", "c", "h", "e", "t">>,
                <<"r", "a", "m">>,
                <<"r", "i", "b", "a", "u", "l", "d", "e", "q", "u", "i", "n">>}]

RECURSIVE SumOver(_, _)
SumOver(units, names) ==
    IF names = {} THEN 0
    ELSE LET k == CHOOSE k \in names : TRUE
         IN  units[k] + SumOver(units, names \ {k})

\* lines 61-68: sum([v for k, v in units.items() if word in k or ...])
ClassTotal(units, words) ==
    SumOver(units, {k \in DOMAIN units :
                       \E word \in words : Contains(k, word)})

NoUnits == [k \in {} |-> 0]

\* the profile the script asks for (lines 7-8)
ScriptProfile == PyStr("17689761")

\* lines 5-73: the run of the script on what get_game_summary returned;
\* raised names the exception that ends it and line the line that raises.
\* GameSummary has no attribute opponent_build_order
analyze_military(fetched) ==
    LET parsed == parse_game_summary(fetched, ScriptProfile).summary IN
    IF parsed = PyNone
    THEN [raised |-> "AttributeError", line |-> 14,
          player_units |-> Unbound, opponent_units |-> Unbound,
          totals |-> Unbound]
    ELSE LET player_units == UnitLoop(parsed.build_order.l, 1, NoUnits) IN
         IF "opponent_build_order" \notin DOMAIN parsed
         THEN [raised |-> "AttributeError", line |-> 23,
               player_units |-> player_units, opponent_units |-> Unbound,
               totals |-> Unbound]
         ELSE LET opponent_units ==
                      UnitLoop(parsed.opponent_build_order.l, 1, NoUnits)
              IN  [raised |-> "none", line |-> 0,
                   player_units |-> player_units,
                   opponent_units |-> opponent_units,
                   totals |->
                      [player |-> [c \in DOMAIN Keywords |->
                                      ClassTotal(player_units, Keywords[c])],
                       opponent |-> [c \in DOMAIN Keywords |->
                                        ClassTotal(opponent_units,
                                                   Keywords[c])]]]

(***************************************************************************)
(* Inputs and specification of the unit tally: a run of the script on one  *)
(* fetched summary                                                         *)
(***************************************************************************)
MaxUnitEntries == 3   \* entries of the player's build order

UnitEntry(type, icon, finished) ==
    PyDict([type |-> PyStr(<<type>>), icon |-> PyStr(icon),
            finished |-> IntList(finished)])

Archers == UnitEntry("Unit", <<"u", "/", "a", "r", "c", "h", "e", "r">>, <<10>>)
MoreArchers ==
    UnitEntry("Unit", <<"x", "/", "a", "r", "c", "h", "e", "r">>, <<20, 30>>)
Horsemen ==
    UnitEntry("Unit", <<"u", "/", "h", "o", "r", "s", "e", "m", "a", "n">>, <<5>>)
Villagers ==
    UnitEntry("Unit", <<"u", "/", "V", "i", "l", "l", "a", "g", "e", "r">>,
              <<1, 2, 3>>)
ArcheryRange ==
    UnitEntry("Building",
              <<"b", "/", "a", "r", "c", "h", "e", "r", "y", "_", "r", "a", "n", "g", "e">>, <<7>>)
Ram == PyDict([type |-> PyStr(<<"Unit">>),
               icon |-> PyStr(<<"u", "/", "r", "a", "m">>)])

UnitEntries == {Archers, MoreArchers, Horsemen, Villagers, ArcheryRange, Ram}

FetchedSummary(build_order) ==
    PyDict([gameId |-> PyInt(220682882), duration |-> PyInt(900),
            players |-> PyList(<<PyDict([profileId |-> PyInt(17689761),
                                         name |-> PyStr("ann"),
                                         buildOrder |-> PyList(build_order)]),
                                 S_str2>>)])

AnalyzeMilitaryOn(fetched, build_order) ==
    \E r \in {analyze_military(fetched)} :
       military_call' = [op |-> "analyze_military", fetched |-> fetched,
                         build_order |-> build_order,
                         raised |-> r.raised, line |-> r.line,
                         player_units |-> r.player_units,
                         opponent_units |-> r.opponent_units,
                         totals |-> r.totals]

AnalyzeMilitary ==
    /\ military_call.op = "none"
    /\ \/ AnalyzeMilitaryOn(PyNone, <<>>)
       \/ \E n \in 0..MaxUnitEntries :
             \E build_order \in SeqsOfLen(UnitEntries, n) :
                AnalyzeMilitaryOn(FetchedSummary(build_order), build_order)
    /\ UNCHANGED <<clientVars, lookupVars, reportVars, timing_call>>

NextMilitary == AnalyzeMilitary

SpecMilitary == Init /\ [][NextMilitary]_vars

(***************************************************************************)
(* C22: in the unit tally each class total is the sum of len(finished)     *)
(* over all build order entries of type Unit whose name has one of the     *)
(* keywords of the class; every such entry counts, two entries of the      *)
(* same unit name included.                                                *)
(***************************************************************************)
MilitaryDone ==
    military_call.op = "analyze_military" /\ military_call.fetched # PyNone

\* the name of an entry: the last segment of its icon path
EntryName(e) ==
    LET icon == e.d["icon"].s
        cut == {i \in DOMAIN icon : icon[i] = "/"}
        from == IF cut = {} THEN 1
                ELSE (CHOOSE i \in cut : \A j \in cut : j <= i) + 1
    IN  SubSeq(icon, from, Len(icon))

Finished(e) ==
    IF "finished" \in DOMAIN e.d THEN Len(e.d["finished"].l) ELSE 0

Counts(e, class) ==
    /\ e.d["type"] = PyStr(<<"Unit">>)
    /\ \E word \in Keywords[class] : Contains(EntryName(e), word)

RECURSIVE SumOfFinished(_, _)
SumOfFinished(build_order, class) ==
    IF build_order = <<>> THEN 0
    ELSE (IF Counts(Head(build_order), class)
          THEN Finished(Head(build_order)) ELSE 0)
         + SumOfFinished(Tail(build_order), class)

C22_ClassTotals ==
    MilitaryDone =>
        /\ military_call.player_units # Unbound
        /\ \A class \in DOMAIN Keywords :
              ClassTotal(military_call.player_units, Keywords[class])
                 = SumOfFinished(military_call.build_order, class)
        /\ military_call.totals # Unbound
        /\ \A class \in DOMAIN Keywords :
              military_call.totals.player[class]
                 = SumOfFinished(military_call.build_order, class)

\* the tally of two archer entries of one and three completions holds
\* the count of the second entry only
C22_Overwritten ==
    /\ MilitaryDone
    /\ military_call.build_order = <<Archers, MoreArchers>>
    /\ ClassTotal(military_call.player_units, Keywords["longbow"]) = 2
    /\ SumOfFinished(military_call.build_order, "longbow") = 3

\* the script ends at line 23 before any class total is worked out
C22_NoTotals ==
    /\ MilitaryDone
    /\ military_call.raised = "AttributeError"
    /\ military_call.line = 23
    /\ military_call.totals = Unbound

(***************************************************************************)
(* C23: recent_games of the player-analysis response holds the first       *)
(* min(5, n) of the n matches that were normalized, in the order they      *)
(* were supplied, each as the compact projection: game id, map, faction,   *)
(* result, rating, rating change, opponent summary, duration.              *)
(***************************************************************************)
Projection(g) ==
    [game_id |-> g.game_id, map |-> g.map, civilization |-> g.player_civ,
     result |-> g.player_result, rating |-> g.player_rating,
     rating_diff |-> g.player_rating_diff,
     opponent |-> PyDict([name |-> g.opponent_name,
                          civilization |-> g.opponent_civ,
                          rating |-> g.opponent_rating]),
     duration |-> g.duration]

Min(a, b) == IF a < b THEN a ELSE b

C23_RecentGames ==
    Answered =>
        LET recent == report_call.body.d["recent_games"].l
            n == Len(report_call.games)
        IN  /\ Len(recent) = Min(5, n)
            /\ \A i \in DOMAIN recent :
                  recent[i] = PyDict(Projection(report_call.games[i]))

\* seven matches, four won and then three lost: five are listed, the
\* fifth is the first loss
C23_Witness ==
    /\ Answered
    /\ Len(report_call.games) = 7
    /\ Len(report_call.body.d["recent_games"].l) = 5
    /\ report_call.body.d["recent_games"].l[4].d["result"] = PyStr("win")
    /\ report_call.body.d["recent_games"].l[5].d["result"] = PyStr("loss")

(***************************************************************************)
(* C24: if the profile fetch yields no player, get_player_analysis ends    *)
(* with the distinct 'not found' outcome (HTTP 404) and that request       *)
(* fetches no match history, normalizes and aggregates nothing and makes   *)
(* no narrative call.                                                      *)
(***************************************************************************)
PlayerAnalysisDone == report_call.op = "get_player_analysis"

\* the profile endpoint answered without a player: a status other than
\* 200, or an empty body
NoPlayerUpstream ==
    \/ report_call.profile_response.status # 200
    \/ report_call.profile_response.json \in {PyNone, EmptyDict}

C24_NotFound ==
    (PlayerAnalysisDone /\ NoPlayerUpstream) =>
        /\ report_call.status = 404
        /\ report_call.body = PyDict([detail |-> PyStr(<<"Player not found">>)])
        /\ report_call.calls = <<"get_player">>
        /\ report_call.games = NotRun
        /\ report_call.analysis = NotRun
        /\ report_call.coaching_report = NotRun

\* the profile endpoint answers 404 while an AI client is configured and
\* match records would be available
C24_Witness ==
    /\ PlayerAnalysisDone
    /\ report_call.profile_response.status = 404
    /\ ai_client # PyNone
    /\ report_call.status = 404
    /\ report_call.calls = <<"get_player">>

(***************************************************************************)
(* C25: whatever the narrative call does (it raises, answers nothing,      *)
(* answers text that is not JSON, a JSON object or a JSON value that is    *)
(* not an object) get_player_analysis completes with a success response    *)
(* that holds the aggregated analysis and the recent matches.              *)
(***************************************************************************)
C25_NeverAborted ==
    NarrativeCalled =>
        /\ report_call.status = 200
        /\ report_call.body # PyNone
        /\ report_call.body.d["success"] = TRUE
        /\ report_call.body.d["analysis"] = report_call.analysis
        /\ report_call.body.d["recent_games"] = RecentGames(report_call.games)

(***************************************************************************)
(* C26: the matches get_player_analysis hands to aggregation and to the    *)
(* response are the upstream records that normalize, in upstream order: a  *)
(* record that does not normalize is left out and does not keep later      *)
(* records from being processed.                                           *)
(***************************************************************************)
Normalizes(record) == parse_game(record, report_call.profile_id).game # PyNone

\* positions of the upstream records that normalize, in ascending order
RECURSIVE Ascending(_)
Ascending(S) ==
    IF S = {} THEN <<>>
    ELSE LET m == CHOOSE m \in S : \A k \in S : m <= k
         IN  <<m>> \o Ascending(S \ {m})

Kept ==
    Ascending({i \in DOMAIN report_call.games_data :
                  Normalizes(report_call.games_data[i])})

C26_NormalizedSubsequence ==
    (PlayerAnalysisDone /\ report_call.status # 404) =>
        /\ Len(report_call.games) = Len(Kept)
        /\ \A i \in DOMAIN Kept :
              report_call.games[i] =
                 parse_game(report_call.games_data[Kept[i]],
                            report_call.profile_id).game
        /\ report_call.analysis = analyze_performance(report_call.games)
        /\ Len(report_call.calls) >= 2 + Len(report_call.games_data)

\* a record without teams between a won and a lost match: both matches
\* are handed on
C26_Witness ==
    /\ PlayerAnalysisDone
    /\ report_call.games_data = <<WonRecord, BrokenRecord, LostRecord>>
    /\ Len(report_call.games) = 2
    /\ report_call.games[1].player_result = PyStr("win")
    /\ report_call.games[2].player_result = PyStr("loss")
    /\ report_call.analysis.d["total_games"] = PyInt(2)

(***************************************************************************)
(* C27: whenever the match summary is fetched and parse_game_summary       *)
(* returns a GameSummary, get_game_build_order returns a success response  *)
(* with the timings and build orders of the player and of the opponent;    *)
(* the only failures of the endpoint are 'not found' (no summary) and the  *)
(* generic parse failure, never a crash while the response is assembled.   *)
(***************************************************************************)
BuildOrderDone == report_call.op = "get_game_build_order"

SummaryParsed ==
    /\ BuildOrderDone
    /\ report_call.summary \notin {NotRun, PyNone}

BuildOrderNotFound ==
    /\ report_call.status = 404 /\ report_call.raised = "HTTPException"

BuildOrderParseFailure ==
    /\ report_call.status = 500 /\ report_call.raised = "HTTPException"
    /\ report_call.body =
          PyDict([detail |-> PyStr(<<"Failed to parse game data">>)])

BuildOrderSuccess ==
    /\ report_call.status = 200 /\ report_call.raised = "none"
    /\ {"timings", "build_order", "opponent_build_order"}
          \subseteq DOMAIN report_call.body.d
    /\ DOMAIN report_call.body.d["timings"].d = {"player", "opponent"}

C27_BuildOrderResponse ==
    /\ SummaryParsed => BuildOrderSuccess
    /\ BuildOrderDone =>
          BuildOrderSuccess \/ BuildOrderNotFound \/ BuildOrderParseFailure

\* a summary that holds the player and an opponent parses, and the
\* request ends with an AttributeError on opponent_apm
C27_Crash ==
    /\ SummaryParsed
    /\ Len(report_call.fetched.d["players"].l) = 2
    /\ report_call.raised = "AttributeError"
    /\ report_call.body = PyDict([attribute |-> PyStr(<<"opponent_apm">>)])

(***************************************************************************)
(* C28  Normalizing twice                                                  *)
(***************************************************************************)

\* the report a call returned has been normalized a second time
NormalizedTwice ==
    /\ report_call.op = "normalize_coaching_report"
    /\ "again" \in DOMAIN report_call

\* C28: normalize_coaching_report is idempotent: applied to its own result
\* it returns, without raising, the same report as one application; and
\* both applications keep the fields of the report and leave every field
\* outside the five list fields as it was passed
C28_Idempotent ==
    NormalizedTwice =>
        /\ ~report_call.raised
        /\ report_call.again = report_call.returned
        /\ report_call.passed.t = "dict" =>
              /\ report_call.returned.t = "dict"
              /\ DOMAIN report_call.returned.d = DOMAIN report_call.passed.d
              /\ \A k \in DOMAIN report_call.passed.d \ ListFields :
                    /\ report_call.returned.d[k] = report_call.passed.d[k]
                    /\ report_call.again.d[k] = report_call.passed.d[k]

\* a report whose list fields the first application rewrote, with a rating,
\* has been normalized twice
C28_Witness ==
    /\ NormalizedTwice
    /\ report_call.passed = ModelReport
    /\ report_call.returned # report_call.passed
    /\ report_call.again.d["rating"] = PyStr(<<"A">>)

(***************************************************************************)
(* C29  Counts of analyze_performance                                      *)
(***************************************************************************)

\* the sum of a counter ("games" or "wins") over the entries of a stats
\* dict, keys being the entries still to add
RECURSIVE TotalOver(_, _, _)
TotalOver(stats, keys, counter) ==
    IF keys = {} THEN 0
    ELSE LET k == CHOOSE x \in keys : TRUE
         IN  stats.d[k].d[counter].i + TotalOver(stats, keys \ {k}, counter)

TotalOf(stats, counter) == TotalOver(stats, DOMAIN stats.d, counter)

\* C29: for a non-empty list of games the counts of the analysis are
\* conserved: games summed over civilization_stats = total_games = games
\* summed over map_stats, wins summed over civilization_stats = wins =
\* wins summed over map_stats, and wins + losses = total_games
C29_CountsConserved ==
    (PerfDone /\ games # <<>>) =>
        /\ TotalOf(analysis.d["civilization_stats"], "games")
              = analysis.d["total_games"].i
        /\ TotalOf(analysis.d["map_stats"], "games")
              = analysis.d["total_games"].i
        /\ TotalOf(analysis.d["civilization_stats"], "wins")
              = analysis.d["wins"].i
        /\ TotalOf(analysis.d["map_stats"], "wins") = analysis.d["wins"].i
        /\ analysis.d["wins"].i + analysis.d["losses"].i
              = analysis.d["total_games"].i

\* three games over two civilizations and two maps, one won, one lost and
\* one with neither result
C29_Witness ==
    /\ PerfDone
    /\ Len(games) = 3
    /\ {games[i].player_result : i \in 1..3}
          = {PyStr("win"), PyStr("loss"), PyStr("unknown")}
    /\ DOMAIN analysis.d["civilization_stats"].d = {"A", "B"}
    /\ DOMAIN analysis.d["map_stats"].d = {"M1", "M2"}
    /\ analysis.d["wins"] = PyInt(1)
    /\ analysis.d["losses"] = PyInt(2)

(***************************************************************************)
(* C30  The catalog only grows                                             *)
(***************************************************************************)

\* entity_count (lines 43-45)
entity_count == Cardinality(DOMAIN pbgid_to_entity)

ReadOps == {"get_name", "get_entity", "enrich_build_order"}

\* C30: every operation on the lookup (load, get_name, get_entity,
\* enrich_build_order, in any order) keeps every identifier of the index
\* in the index, so entity_count never decreases, also across a load that
\* loads nothing and clears the loaded flag; and get_name, get_entity and
\* enrich_build_order change neither the index nor the loaded flag
C30_CatalogOnlyGrows ==
    [][/\ DOMAIN pbgid_to_entity \subseteq DOMAIN pbgid_to_entity'
       /\ entity_count' >= entity_count
       /\ \A pbgid \in DOMAIN pbgid_to_entity :
             get_entity(pbgid_to_entity', pbgid) # PyNone
       /\ lookup_call'.op \in ReadOps =>
             /\ pbgid_to_entity' = pbgid_to_entity
             /\ loaded' = loaded]_vars

\* a load whose three requests all failed has left an index that still
\* holds entities, with the loaded flag cleared
C30_Witness ==
    /\ lookup_call.op = "load"
    /\ lookup_call.responses =
          <<[kind |-> "raise"], Http(404, PyNone), [kind |-> "raise"]>>
    /\ ~loaded
    /\ entity_count > 0

====
